---- MODULE Spec2Model ----
(***************************************************************************)
(* Content post-processing pipeline of the study-space backend: directive  *)
(* extraction, resolution against the external services, and the rewrite   *)
(* of the Markdown text.                                                   *)
(*                                                                         *)
(* A JavaScript string is modelled as a sequence of one-character strings, *)
(* so that regular-expression matching, String.prototype.replace and the   *)
(* template literals of the source are computed character by character.    *)
(* Positions kept in records are zero-based as in the source; indices into *)
(* sequences are one-based.                                                *)
(***************************************************************************)
EXTENDS Integers, Sequences, FiniteSets, TLC

(***************************************************************************)
(* Bounds of the model.                                                    *)
(***************************************************************************)
\* number of segments (literal characters or directives) a document is built from
MaxSegs == 2
\* largest value of the maxRetries option passed to generateImage
MaxRetriesOpt == 3
\* longest source handed to encodeDiagramSource
MaxSourceLen == 3
\* number of clock steps a material-creation request is followed for
MaxTicks == 4

(***************************************************************************)
(* Characters and the string built-ins the source uses.                    *)
(***************************************************************************)
\* the grave accent, which the lexer of TLA+ does not accept inside a string
Backtick == "GRAVE"

UpperChars ==
    <<"A", "B", "C", "D", "E", "F", "G", "H", "I", "J", "K", "L", "M",
      "N", "O", "P", "Q", "R", "S", "T", "U", "V", "W", "X", "Y", "Z">>

LowerChars ==
    <<"a", "b", "c", "d", "e", "f", "g", "h", "i", "j", "k", "l", "m",
      "n", "o", "p", "q", "r", "s", "t", "u", "v", "w", "x", "y", "z">>

DigitChars ==
    {"0", "1", "2", "3", "4", "5", "6", "7", "8", "9"}

SetMin(S) ==
    CHOOSE x \in S : \A y \in S : x <= y

SetMax(S) ==
    CHOOSE x \in S : \A y \in S : x >= y

IsUpper(c) ==
    \E i \in DOMAIN UpperChars : UpperChars[i] = c

IsLower(c) ==
    \E i \in DOMAIN LowerChars : LowerChars[i] = c

ToLowerChar(c) ==
    IF IsUpper(c)
    THEN LowerChars[CHOOSE i \in DOMAIN UpperChars : UpperChars[i] = c]
    ELSE c

ToUpperChar(c) ==
    IF IsLower(c)
    THEN UpperChars[CHOOSE i \in DOMAIN LowerChars : LowerChars[i] = c]
    ELSE c

\* String.prototype.toLowerCase
ToLowerCase(s) ==
    [i \in 1..Len(s) |-> ToLowerChar(s[i])]

\* String.prototype.toUpperCase
ToUpperCase(s) ==
    [i \in 1..Len(s) |-> ToUpperChar(s[i])]

\* the class \s of a regular expression, and the characters trim() strips
IsWhiteSpace(c) ==
    c \in {" ", "\n", "\t", "\r"}

\* the class \w of a regular expression
IsWordChar(c) ==
    IsUpper(c) \/ IsLower(c) \/ c \in DigitChars \/ c = "_"

\* String.prototype.trim
Trim(s) ==
    LET keep == {i \in 1..Len(s) : ~IsWhiteSpace(s[i])}
    IN  IF keep = {} THEN <<>> ELSE SubSeq(s, SetMin(keep), SetMax(keep))

\* the literal p stands in s at index i
StartsWithAt(s, i, p) ==
    /\ i >= 1
    /\ i + Len(p) - 1 <= Len(s)
    /\ \A k \in 1..Len(p) : s[i + k - 1] = p[k]

\* the literal p stands in s at index i, under the flag i of a regular expression
StartsWithAtIgnoreCase(s, i, p) ==
    /\ i >= 1
    /\ i + Len(p) - 1 <= Len(s)
    /\ \A k \in 1..Len(p) : ToLowerChar(s[i + k - 1]) = ToLowerChar(p[k])

\* index of the first occurrence of p in s at or after index from, 0 when there is none
IndexOfFrom(s, p, from) ==
    LET hits == {i \in from..(Len(s) - Len(p) + 1) : StartsWithAt(s, i, p)}
    IN  IF hits = {} THEN 0 ELSE SetMin(hits)

\* String.prototype.indexOf, one-based, 0 when there is none
IndexOf(s, p) ==
    IndexOfFrom(s, p, 1)

\* String.prototype.includes
Includes(s, p) ==
    IndexOf(s, p) > 0

\* GetSubstitution of String.prototype.replace for a string pattern (no capture):
\* in the replacement text $$ is a dollar sign, $& the matched text, $ with a
\* backtick the text before the match and $ with an apostrophe the text after
\* it; any other $ stands for itself.
RECURSIVE GetSubstitution(_, _, _, _, _)
GetSubstitution(matched, str, position, replacement, i) ==
    IF i > Len(replacement) THEN <<>>
    ELSE IF replacement[i] = "$" /\ i < Len(replacement)
    THEN CASE replacement[i + 1] = "$" ->
                <<"$">> \o GetSubstitution(matched, str, position, replacement, i + 2)
           [] replacement[i + 1] = "&" ->
                matched \o GetSubstitution(matched, str, position, replacement, i + 2)
           [] replacement[i + 1] = Backtick ->
                SubSeq(str, 1, position - 1)
                    \o GetSubstitution(matched, str, position, replacement, i + 2)
           [] replacement[i + 1] = "'" ->
                SubSeq(str, position + Len(matched), Len(str))
                    \o GetSubstitution(matched, str, position, replacement, i + 2)
           [] OTHER ->
                <<"$">> \o GetSubstitution(matched, str, position, replacement, i + 1)
    ELSE <<replacement[i]>> \o GetSubstitution(matched, str, position, replacement, i + 1)

\* String.prototype.replace(searchValue, replaceValue) with two strings: the first
\* occurrence of searchValue, if any, is replaced by the expanded replaceValue
Replace(str, searchValue, replaceValue) ==
    LET position == IndexOf(str, searchValue)
    IN  IF position = 0 THEN str
        ELSE SubSeq(str, 1, position - 1)
                \o GetSubstitution(searchValue, str, position, replaceValue, 1)
                \o SubSeq(str, position + Len(searchValue), Len(str))

(***************************************************************************)
(* Directive extractors.                                                   *)
(***************************************************************************)
OpenBraces == <<"{", "{">>

CloseBraces == <<"}", "}">>

Fence == <<Backtick, Backtick, Backtick>>

ImageTag == <<"{", "{", "I", "M", "A", "G", "E", ":">>

\* the alternatives of /\{\{(GENERATE|DIAGRAM|ILLUSTRATION):/ in their order
GenerationTags ==
    << <<"G", "E", "N", "E", "R", "A", "T", "E">>,
       <<"D", "I", "A", "G", "R", "A", "M">>,
       <<"I", "L", "L", "U", "S", "T", "R", "A", "T", "I", "O", "N">> >>

InlineDiagramTag == <<"{", "{", "D", "I", "A", "G", "R", "A", "M", ":">>

\* the language tags of the fenced-block pattern, in the order of its alternation
FencedEngines ==
    << <<"m", "e", "r", "m", "a", "i", "d">>,
       <<"p", "l", "a", "n", "t", "u", "m", "l">>,
       <<"g", "r", "a", "p", "h", "v", "i", "z">>,
       <<"d", "o", "t">>,
       <<"d", "2">>,
       <<"b", "l", "o", "c", "k", "d", "i", "a", "g">>,
       <<"s", "e", "q", "d", "i", "a", "g">>,
       <<"a", "c", "t", "d", "i", "a", "g">>,
       <<"n", "w", "d", "i", "a", "g">>,
       <<"d", "i", "t", "a", "a">>,
       <<"e", "r", "d">>,
       <<"n", "o", "m", "n", "o", "m", "l">>,
       <<"p", "i", "k", "c", "h", "r">>,
       <<"s", "v", "g", "b", "o", "b">>,
       <<"v", "e", "g", "a">>,
       <<"v", "e", "g", "a", "l", "i", "t", "e">>,
       <<"w", "a", "v", "e", "d", "r", "o", "m">> >>

\* index of the first "}" of content at or after index j, Len(content) + 1 when none
FirstCloseFrom(content, j) ==
    LET closes == {k \in j..Len(content) : content[k] = "}"}
    IN  IF closes = {} THEN Len(content) + 1 ELSE SetMin(closes)

\* variant: the pattern also accepts a description that runs to the end of the text
DescriptionMatchEndOrEof(content, j) ==
    LET k == FirstCloseFrom(content, j)
    IN  IF k > j /\ (k > Len(content) \/ StartsWithAt(content, k, CloseBraces))
        THEN SetMin({k + 2, Len(content) + 1})
        ELSE 0

\* /\s*([^}]+)\}\}/ anchored at index j: the index after the match, 0 when it fails.
\* [^}]+ runs to the first "}", which must open "}}"; the run must not be empty.
DescriptionMatchEnd(content, j) ==
    LET k == FirstCloseFrom(content, j)
    IN  IF k > j /\ StartsWithAt(content, k, CloseBraces) THEN k + 2 ELSE 0

\* capture group ([^}]+) of that match: \s* is greedy but leaves the group one character
DescriptionGroup(content, j) ==
    LET k    == FirstCloseFrom(content, j)
        lead == {n \in 0..(k - j) : \A m \in j..(j + n - 1) : IsWhiteSpace(content[m])}
        ws   == SetMax(lead)
        from == IF ws = k - j THEN k - 1 ELSE j + ws
    IN  SubSeq(content, from, k - 1)

\* /\{\{IMAGE:\s*([^}]+)\}\}/ anchored at index i
ImageMatchEnd(content, i) ==
    IF StartsWithAt(content, i, ImageTag)
    THEN DescriptionMatchEnd(content, i + Len(ImageTag))
    ELSE 0

RECURSIVE ImageExec(_, _)
ImageExec(content, i) ==
    IF i > Len(content) THEN <<>>
    ELSE LET e == ImageMatchEnd(content, i)
         IN  IF e = 0 THEN ImageExec(content, i + 1)
             ELSE << [ fullMatch   |-> SubSeq(content, i, e - 1),
                       description |-> Trim(DescriptionGroup(content, i + Len(ImageTag))),
                       position    |-> i - 1 ] >>
                  \o ImageExec(content, e)

extractImagePlaceholders(content) ==
    ImageExec(content, 1)

\* the alternatives of GenerationTags that match at index i, followed by ":"
GenerationTagAt(content, i) ==
    {t \in DOMAIN GenerationTags :
        /\ StartsWithAt(content, i, OpenBraces)
        /\ StartsWithAtIgnoreCase(content, i + 2, GenerationTags[t] \o <<":">>)}

\* /\{\{(GENERATE|DIAGRAM|ILLUSTRATION):\s*([^}]+)\}\}/gi anchored at index i
GenerationMatchEnd(content, i) ==
    LET tags == GenerationTagAt(content, i)
    IN  IF tags = {} THEN 0
        ELSE DescriptionMatchEnd(content, i + 2 + Len(GenerationTags[SetMin(tags)]) + 1)

RECURSIVE GenerationExec(_, _)
GenerationExec(content, i) ==
    IF i > Len(content) THEN <<>>
    ELSE LET e == GenerationMatchEnd(content, i)
         IN  IF e = 0 THEN GenerationExec(content, i + 1)
             ELSE LET n == Len(GenerationTags[SetMin(GenerationTagAt(content, i))])
                  IN  << [ fullMatch   |-> SubSeq(content, i, e - 1),
                           type        |-> ToUpperCase(SubSeq(content, i + 2, i + 1 + n)),
                           description |-> Trim(DescriptionGroup(content, i + 2 + n + 1)),
                           position    |-> i - 1 ] >>
                      \o GenerationExec(content, e)

extractGenerationRequests(content) ==
    GenerationExec(content, 1)

\* the engines of FencedEngines that stand after the fence at index i, followed by \n
FencedEngineAt(content, i) ==
    {t \in DOMAIN FencedEngines :
        /\ StartsWithAt(content, i, Fence)
        /\ StartsWithAtIgnoreCase(content, i + 3, FencedEngines[t] \o <<"\n">>)}

\* the fenced-block pattern /(fence)(mermaid|...|wavedrom)\n([\s\S]*?)(fence)/gi anchored at index i: the lazy body
\* ends at the first fence after the language line
FencedMatchEnd(content, i) ==
    LET tags == FencedEngineAt(content, i)
    IN  IF tags = {} THEN 0
        ELSE LET body  == i + 3 + Len(FencedEngines[SetMin(tags)]) + 1
                 close == IndexOfFrom(content, Fence, body)
             IN  IF close = 0 THEN 0 ELSE close + 3

RECURSIVE FencedExec(_, _)
FencedExec(content, i) ==
    IF i > Len(content) THEN <<>>
    ELSE LET e == FencedMatchEnd(content, i)
         IN  IF e = 0 THEN FencedExec(content, i + 1)
             ELSE LET n == Len(FencedEngines[SetMin(FencedEngineAt(content, i))])
                  IN  << [ fullMatch |-> SubSeq(content, i, e - 1),
                           type      |-> ToLowerCase(SubSeq(content, i + 3, i + 2 + n)),
                           source    |-> Trim(SubSeq(content, i + 3 + n + 1, e - 4)),
                           position  |-> i - 1 ] >>
                      \o FencedExec(content, e)

\* length of the run (\w+) at index j
WordRun(content, j) ==
    SetMax({n \in 0..(Len(content) - j + 1) :
                \A m \in j..(j + n - 1) : IsWordChar(content[m])})

\* /\{\{DIAGRAM:(\w+)\n([\s\S]*?)\}\}/gi anchored at index i
InlineMatchEnd(content, i) ==
    IF ~StartsWithAtIgnoreCase(content, i, InlineDiagramTag) THEN 0
    ELSE LET j == i + Len(InlineDiagramTag)
             n == WordRun(content, j)
         IN  IF n = 0 \/ ~StartsWithAt(content, j + n, <<"\n">>) THEN 0
             ELSE LET close == IndexOfFrom(content, CloseBraces, j + n + 1)
                  IN  IF close = 0 THEN 0 ELSE close + 2

RECURSIVE InlineExec(_, _)
InlineExec(content, i) ==
    IF i > Len(content) THEN <<>>
    ELSE LET e == InlineMatchEnd(content, i)
         IN  IF e = 0 THEN InlineExec(content, i + 1)
             ELSE LET j == i + Len(InlineDiagramTag)
                      n == WordRun(content, j)
                  IN  << [ fullMatch |-> SubSeq(content, i, e - 1),
                           type      |-> ToLowerCase(SubSeq(content, j, j + n - 1)),
                           source    |-> Trim(SubSeq(content, j + n + 1, e - 3)),
                           position  |-> i - 1 ] >>
                      \o InlineExec(content, e)

\* fenced blocks first, inline blocks after them
extractDiagramBlocks(content) ==
    FencedExec(content, 1) \o InlineExec(content, 1)

\* variant: the sort is left out, the list stays in extraction order
SortByPositionAsExtracted(list) ==
    list

\* Array.prototype.sort((a, b) => b.position - a.position): stable, descending
RECURSIVE SortByPositionDesc(_)
SortByPositionDesc(list) ==
    IF list = <<>> THEN <<>>
    ELSE LET sorted == SortByPositionDesc(SubSeq(list, 1, Len(list) - 1))
             x      == list[Len(list)]
             before == {k \in 0..Len(sorted) :
                            \A m \in 1..k : sorted[m].position >= x.position}
             k      == SetMax(before)
         IN  SubSeq(sorted, 1, k) \o <<x>> \o SubSeq(sorted, k + 1, Len(sorted))

(***************************************************************************)
(* Diagram resolver: engine catalog and Mermaid sanitization.              *)
(***************************************************************************)
Mermaid == <<"m", "e", "r", "m", "a", "i", "d">>

Graphviz == <<"g", "r", "a", "p", "h", "v", "i", "z">>

Dot == <<"d", "o", "t">>

\* the keys of DIAGRAM_TYPES
DiagramTypeKeys ==
    { <<"m", "e", "r", "m", "a", "i", "d">>,
      <<"p", "l", "a", "n", "t", "u", "m", "l">>,
      <<"g", "r", "a", "p", "h", "v", "i", "z">>,
      <<"d", "o", "t">>,
      <<"d", "2">>,
      <<"e", "x", "c", "a", "l", "i", "d", "r", "a", "w">>,
      <<"b", "l", "o", "c", "k", "d", "i", "a", "g">>,
      <<"s", "e", "q", "d", "i", "a", "g">>,
      <<"a", "c", "t", "d", "i", "a", "g">>,
      <<"n", "w", "d", "i", "a", "g">>,
      <<"p", "a", "c", "k", "e", "t", "d", "i", "a", "g">>,
      <<"r", "a", "c", "k", "d", "i", "a", "g">>,
      <<"c", "4", "p", "l", "a", "n", "t", "u", "m", "l">>,
      <<"d", "i", "t", "a", "a">>,
      <<"e", "r", "d">>,
      <<"n", "o", "m", "n", "o", "m", "l">>,
      <<"p", "i", "k", "c", "h", "r">>,
      <<"s", "t", "r", "u", "c", "t", "u", "r", "i", "z", "r">>,
      <<"s", "v", "g", "b", "o", "b">>,
      <<"v", "e", "g", "a">>,
      <<"v", "e", "g", "a", "l", "i", "t", "e">>,
      <<"w", "a", "v", "e", "d", "r", "o", "m">>,
      <<"w", "i", "r", "e", "v", "i", "z">> }

\* DIAGRAM_TYPES[key]: every key names itself, except dot, which names graphviz
DIAGRAM_TYPES(key) ==
    IF key = Dot THEN Graphviz ELSE key

\* DIAGRAM_TYPES is an object literal: besides its own keys a lookup finds the
\* properties every object inherits, of which two have a lower-case name; the
\* value is what a template literal makes of it
InheritedKeys ==
    { <<"c", "o", "n", "s", "t", "r", "u", "c", "t", "o", "r">>,
      <<"_", "_", "p", "r", "o", "t", "o", "_", "_">> }

InheritedText(key) ==
    IF key = <<"c", "o", "n", "s", "t", "r", "u", "c", "t", "o", "r">>
    THEN <<"f", "u", "n", "c", "t", "i", "o", "n", " ", "O", "b", "j", "e", "c", "t", "(", ")", " ", "{", " ", "[", "n", "a", "t", "i", "v", "e", " ", "c", "o", "d", "e", "]", " ", "}">>
    ELSE <<"[", "o", "b", "j", "e", "c", "t", " ", "O", "b", "j", "e", "c", "t", "]">>

\* DIAGRAM_TYPES[type.toLowerCase()] || type.toLowerCase()
DiagramTypeOf(type) ==
    LET lower == ToLowerCase(type)
    IN  IF lower \in DiagramTypeKeys THEN DIAGRAM_TYPES(lower)
        ELSE IF lower \in InheritedKeys THEN InheritedText(lower)
        ELSE lower

\* the four chained replace calls on quotes: curly single quotes, apostrophes and
\* grave accents are removed, curly double quotes become a straight double quote
RECURSIVE StripQuotes(_)
StripQuotes(s) ==
    IF s = <<>> THEN <<>>
    ELSE LET c == Head(s)
         IN  (CASE c \in {"U+2018", "U+2019", "'", Backtick} -> <<>>
                [] c \in {"U+201C", "U+201D"} -> <<"\"">>
                [] OTHER -> <<c>>)
             \o StripQuotes(Tail(s))

IsIdentStart(c) ==
    IsUpper(c) \/ IsLower(c) \/ c = "_"

\* length of the maximal run of white space of s from index j
WhiteSpaceRun(s, j) ==
    SetMax({n \in 0..(Len(s) - j + 1) :
                \A m \in j..(j + n - 1) : IsWhiteSpace(s[m])})

\* /([}\]\)])(\s{2,})([A-Za-z_][A-Za-z0-9_]*(?:\[|\{|\())/ anchored at index i:
\* the index after the match, 0 when it fails
NodeBreakMatchEnd(s, i) ==
    IF i > Len(s) \/ s[i] \notin {"}", "]", ")"} THEN 0
    ELSE LET ws == WhiteSpaceRun(s, i + 1)
             id == i + 1 + ws
         IN  IF ws < 2 \/ id > Len(s) \/ ~IsIdentStart(s[id]) THEN 0
             ELSE LET open == id + WordRun(s, id)
                  IN  IF open <= Len(s) /\ s[open] \in {"[", "{", "("}
                      THEN open + 1 ELSE 0

\* the line-break step left out
InsertNoNodeBreaks(s, i) ==
    SubSeq(s, i, Len(s))

\* replace(/.../g, '$1\n    $3'): every match, left to right, without overlap
RECURSIVE InsertNodeBreaks(_, _)
InsertNodeBreaks(s, i) ==
    IF i > Len(s) THEN <<>>
    ELSE LET e == NodeBreakMatchEnd(s, i)
         IN  IF e = 0 THEN <<s[i]>> \o InsertNodeBreaks(s, i + 1)
             ELSE <<s[i], "\n", " ", " ", " ", " ">>
                  \o SubSeq(s, i + 1 + WhiteSpaceRun(s, i + 1), e - 1)
                  \o InsertNodeBreaks(s, e)

\* String.prototype.split('\n')
RECURSIVE SplitLines(_)
SplitLines(s) ==
    LET nl == IndexOf(s, <<"\n">>)
    IN  IF nl = 0 THEN <<s>>
        ELSE <<SubSeq(s, 1, nl - 1)>> \o SplitLines(SubSeq(s, nl + 1, Len(s)))

\* Array.prototype.join('\n')
RECURSIVE JoinLines(_)
JoinLines(lines) ==
    IF Len(lines) = 0 THEN <<>>
    ELSE IF Len(lines) = 1 THEN lines[1]
    ELSE lines[1] \o <<"\n">> \o JoinLines(Tail(lines))

EndsWith(s, p) ==
    Len(s) >= Len(p) /\ StartsWithAt(s, Len(s) - Len(p) + 1, p)

\* the prefixes of a line that the semicolon rule leaves alone
DeclarationPrefixes ==
    { <<"g", "r", "a", "p", "h", " ">>,
      <<"f", "l", "o", "w", "c", "h", "a", "r", "t", " ">>,
      <<"s", "e", "q", "u", "e", "n", "c", "e", "D", "i", "a", "g", "r", "a", "m">>,
      <<"c", "l", "a", "s", "s", "D", "i", "a", "g", "r", "a", "m">>,
      <<"s", "t", "a", "t", "e", "D", "i", "a", "g", "r", "a", "m">>,
      <<"e", "r", "D", "i", "a", "g", "r", "a", "m">>,
      <<"g", "a", "n", "t", "t">>,
      <<"p", "i", "e">>,
      <<"s", "u", "b", "g", "r", "a", "p", "h", " ">> }

\* /-->|---|--\||-.->|\|>|<\|/.test(trimmed)
HasConnector(trimmed) ==
    \/ Includes(trimmed, <<"-", "-", ">">>)
    \/ Includes(trimmed, <<"-", "-", "-">>)
    \/ Includes(trimmed, <<"-", "-", "|">>)
    \/ \E i \in 1..(Len(trimmed) - 3) :
            /\ trimmed[i] = "-"
            /\ trimmed[i + 1] \notin {"\n", "\r"}
            /\ trimmed[i + 2] = "-"
            /\ trimmed[i + 3] = ">"
    \/ Includes(trimmed, <<"|", ">">>)
    \/ Includes(trimmed, <<"<", "|">>)

\* the function mapped over the lines
SanitizeLine(line) ==
    LET trimmed == Trim(line)
    IN  IF \/ trimmed = <<>>
           \/ \E p \in DeclarationPrefixes : StartsWithAt(trimmed, 1, p)
           \/ trimmed = <<"e", "n", "d">>
           \/ EndsWith(trimmed, <<";">>)
           \/ EndsWith(trimmed, <<"{">>)
           \/ EndsWith(trimmed, <<":">>)
        THEN line
        ELSE IF HasConnector(trimmed) THEN line \o <<";">> ELSE line

sanitizeMermaidSource(source) ==
    LET quoted == StripQuotes(Trim(source))
        broken == InsertNodeBreaks(quoted, 1)
        lines  == SplitLines(broken)
    IN  JoinLines([k \in 1..Len(lines) |-> SanitizeLine(lines[k])])

(***************************************************************************)
(* The sanitization written inline in generateDiagram of utils/kroki.js.   *)
(***************************************************************************)
\* /\](\s{2,})([A-Za-z_][A-Za-z0-9_]*(?:\[|\{|\())/ anchored at index i:
\* the index after the match, 0 when it fails
KrokiJsNodeBreakMatchEnd(s, i) ==
    IF i > Len(s) \/ s[i] # "]" THEN 0
    ELSE LET ws == WhiteSpaceRun(s, i + 1)
             id == i + 1 + ws
         IN  IF ws < 2 \/ id > Len(s) \/ ~IsIdentStart(s[id]) THEN 0
             ELSE LET open == id + WordRun(s, id)
                  IN  IF open <= Len(s) /\ s[open] \in {"[", "{", "("}
                      THEN open + 1 ELSE 0

\* replace(/.../g, ']\n    $2')
RECURSIVE KrokiJsInsertNodeBreaks(_, _)
KrokiJsInsertNodeBreaks(s, i) ==
    IF i > Len(s) THEN <<>>
    ELSE LET e == KrokiJsNodeBreakMatchEnd(s, i)
         IN  IF e = 0 THEN <<s[i]>> \o KrokiJsInsertNodeBreaks(s, i + 1)
             ELSE <<"]", "\n", " ", " ", " ", " ">>
                  \o SubSeq(s, i + 1 + WhiteSpaceRun(s, i + 1), e - 1)
                  \o KrokiJsInsertNodeBreaks(s, e)

KrokiJsDeclarationPrefixes ==
    { <<"g", "r", "a", "p", "h", " ">>,
      <<"f", "l", "o", "w", "c", "h", "a", "r", "t", " ">>,
      <<"s", "u", "b", "g", "r", "a", "p", "h", " ">> }

\* /-->|---|\|/.test(trimmed)
KrokiJsHasConnector(trimmed) ==
    \/ Includes(trimmed, <<"-", "-", ">">>)
    \/ Includes(trimmed, <<"-", "-", "-">>)
    \/ Includes(trimmed, <<"|">>)

KrokiJsSanitizeLine(line) ==
    LET trimmed == Trim(line)
    IN  IF \/ trimmed = <<>>
           \/ \E p \in KrokiJsDeclarationPrefixes : StartsWithAt(trimmed, 1, p)
           \/ trimmed = <<"e", "n", "d">>
           \/ EndsWith(trimmed, <<";">>)
           \/ EndsWith(trimmed, <<"{">>)
        THEN line
        ELSE IF KrokiJsHasConnector(trimmed) THEN line \o <<";">> ELSE line

\* cleanedSource of a mermaid diagram, from source.trim() to the join
KrokiJsCleanedSource(source) ==
    LET quoted == StripQuotes(Trim(source))
        broken == KrokiJsInsertNodeBreaks(quoted, 1)
        lines  == SplitLines(broken)
    IN  JoinLines([k \in 1..Len(lines) |-> KrokiJsSanitizeLine(lines[k])])

(***************************************************************************)
(* Texts the source builds with template literals.                         *)
(***************************************************************************)
\* `![${block.type} diagram](${result.url})`
DiagramImageMarkdown(block, result) ==
    <<"!", "[">> \o block.type \o <<" ", "d", "i", "a", "g", "r", "a", "m">>
        \o <<"]", "(">> \o result.url \o <<")">>

\* `${block.fullMatch}\n\n*⚠️ Diagram rendering failed: ${result.error}*`
DiagramFailureNote(block, result) ==
    block.fullMatch
        \o <<"\n", "\n", "*", "U+26A0", "U+FE0F", " ", "D", "i", "a", "g", "r", "a", "m",
             " ", "r", "e", "n", "d", "e", "r", "i", "n", "g", " ", "f", "a", "i", "l",
             "e", "d", ":", " ">>
        \o result.error \o <<"*">>

\* `![${request.description}](${result.url})`
GeneratedImageMarkdown(request, result) ==
    <<"!", "[">> \o request.description \o <<"]", "(">> \o result.url \o <<")">>

\* `*[Image: ${request.description} - generation pending]*`
GenerationPendingNote(request) ==
    <<"*", "[", "I", "m", "a", "g", "e", ":", " ">> \o request.description
        \o <<" ", "-", " ", "g", "e", "n", "e", "r", "a", "t", "i", "o", "n", " ",
             "p", "e", "n", "d", "i", "n", "g", "]", "*">>

\* `{{IMAGE: ${placeholder}}}`
SearchPlaceholderText(image) ==
    <<"{", "{", "I", "M", "A", "G", "E", ":", " ">> \o image.placeholder \o <<"}", "}">>

\* `\n\n![${placeholder}](${image.url})\n\n`
SearchImageMarkdown(image) ==
    <<"\n", "\n", "!", "[">> \o image.placeholder \o <<"]", "(">> \o image.url
        \o <<")", "\n", "\n">>

\* images.forEach(...) of replaceImagePlaceholders, from the image at index i on
RECURSIVE ReplaceEachImage(_, _, _)
ReplaceEachImage(updatedContent, images, i) ==
    IF i > Len(images) THEN updatedContent
    ELSE ReplaceEachImage(
            Replace(updatedContent, SearchPlaceholderText(images[i]),
                    SearchImageMarkdown(images[i])),
            images, i + 1)

\* replaceImagePlaceholders(content, images); the sort is in place, so the caller's
\* array is left in descending order of position
replaceImagePlaceholders(content, images) ==
    ReplaceEachImage(content, SortByPositionDesc(images), 1)

\* `Diagram syntax error: ${errorMessage}`
SyntaxErrorPrefix ==
    <<"D", "i", "a", "g", "r", "a", "m", " ", "s", "y", "n", "t", "a", "x", " ",
      "e", "r", "r", "o", "r", ":", " ">>

EmptyDiagramSource ==
    <<"E", "m", "p", "t", "y", " ", "d", "i", "a", "g", "r", "a", "m", " ",
      "s", "o", "u", "r", "c", "e">>

\* String.prototype.substring(0, n)
Substring0(s, n) ==
    SubSeq(s, 1, IF Len(s) < n THEN Len(s) ELSE n)

(***************************************************************************)
(* Program constants.                                                      *)
(***************************************************************************)
\* generateImage: maxRetries = 3
DefaultMaxRetries == 3
\* generateImage: retryDelay = 2000
DefaultRetryDelay == 2000
\* generateDiagram: errorText.substring(0, 300)
SyntaxErrorLimit == 300
\* generateDiagram, catch: toString('utf-8').substring(0, 200)
CatchErrorLimit == 200
\* source.length under which generateDiagram hands out a GET URL
UrlSourceLimit == 2000
\* POST /create: the timeoutMs handed to withTimeout around generateWithFallback
GenerationTimeoutMs == 300000

(***************************************************************************)
(* State.                                                                  *)
(***************************************************************************)
VARIABLES
    mode,       \* the operation under way: one of Modes
    pc,         \* where the operation stands: the await it is suspended at
    original,   \* the text the operation was given
    content,    \* the text being rewritten
    blocks,     \* the directives being iterated, in the order of the loop
    idx,        \* index in blocks of the directive being resolved
    results,    \* the resolver's result for every directive handled so far
    manifest,   \* processedDiagrams / images / generatedImages
    replaced,   \* positions of the directives whose replace call ran, in order
    calls,      \* number of requests sent to external services so far
    opts,       \* generateImage: maxRetries, retryDelay, USE_CLOUDINARY
    attempt,    \* generateImage: the loop variable
    events,     \* what the resolver call under way has seen: responses and sleeps
    ret         \* the value the last resolver call returned

vars ==
    <<mode, pc, original, content, blocks, idx, results, manifest, replaced,
      calls, opts, attempt, events, ret>>

Modes ==
    {"diagrams", "search", "generation", "generateDiagram", "generateImage",
     "krokiGenerateDiagram", "extract", "sanitizeMermaidSource",
     "krokiSanitize", "encode", "concurrent", "urlGenerateDiagram",
     "generateWithFallback", "spaces", "createMaterial"}

(***************************************************************************)
(* Results of the resolvers.                                               *)
(***************************************************************************)
Success(url, publicId) ==
    [defined |-> TRUE, success |-> TRUE, url |-> url, error |-> <<>>,
     publicId |-> publicId]

Failure(error) ==
    [defined |-> TRUE, success |-> FALSE, url |-> <<>>, error |-> error,
     publicId |-> <<>>]

\* the value of a call that fell off the end of the function
Undefined ==
    [defined |-> FALSE, success |-> FALSE, url |-> <<>>, error |-> <<>>,
     publicId |-> <<>>]

(***************************************************************************)
(* The external services: what they may answer.                            *)
(***************************************************************************)
\* URLs the storage, search and generation services hand out: two for a
\* direct call, one per directive inside a pass
Urls ==
    IF mode \in {"generateDiagram", "generateImage"}
    THEN {<<"u">>, <<"v">>}
    ELSE {<<"u", CHOOSE d \in DigitChars : ToString(idx) = d>>}

\* error.message of an error raised without a response: an opaque text per cause
ErrorMessage(cause) ==
    CASE cause = "neterr"  -> <<"N", "e", "t">>
      [] cause = "timeout" -> <<"T", "m", "o">>
      [] cause = "upload"  -> <<"U", "p", "l">>
      [] cause = "type"    -> <<"T", "y", "p">>
      [] OTHER             -> <<"S", "t", "a">>

\* a text of n characters
Filler(n) ==
    [i \in 1..n |-> "e"]

\* bodies the rendering service sends with a status
KrokiBodies ==
    IF mode = "generateDiagram"
    THEN {<<>>, <<"e">>, Filler(CatchErrorLimit), Filler(CatchErrorLimit + 1),
          Filler(SyntaxErrorLimit), Filler(SyntaxErrorLimit + 1)}
    ELSE {<<"e">>}

KrokiStatuses ==
    IF mode = "generateDiagram" THEN {200, 400, 404, 499, 500, 503}
    ELSE {200, 400, 500}

\* what axios.post may end with: a response, or an error without one
KrokiResponses ==
    [outcome : {"response"}, status : KrokiStatuses, data : KrokiBodies]
        \cup [outcome : {"neterr", "timeout"}, status : {0}, data : {<<>>}]

\* utils/kroki.js posts without responseType: axios hands the body over as a
\* string, or as an object when it parses as JSON; data is the text the server sent
KrokiJsResponses ==
    [outcome : {"response"}, status : {200, 400, 404, 500},
     data : {<<"e">>, Filler(CatchErrorLimit), Filler(CatchErrorLimit + 1)},
     typeofData : {"string", "object"}]
        \cup [outcome : {"neterr", "timeout"}, status : {0}, data : {<<>>},
              typeofData : {"undefined"}]

\* what axios.get of the generation service may end with
PollinationsResponses ==
    IF mode = "generateImage"
    THEN [outcome : {"response"}, status : {200, 404, 500, 502}]
             \cup [outcome : {"neterr", "timeout"}, status : {0}]
    ELSE [outcome : {"response"}, status : {200, 500, 502}]

\* what axios.get of the search service may end with: a list of items, each
\* with or without its image field, or an error
SearchResponses ==
    [outcome : {"response"},
     items : {<<>>} \cup {<<[link |-> u, image |-> i]>> : u \in Urls, i \in BOOLEAN}]
        \cup [outcome : {"neterr"}, items : {<<>>}]

(***************************************************************************)
(* Documents: a text is the concatenation of at most MaxSegs segments.     *)
(***************************************************************************)
DiagramSegments ==
    { <<"x">>,
      Fence \o <<"d", "o", "t", "\n", "a">> \o Fence,
      Fence \o <<"D", "O", "T", "\n", "b">> \o Fence,
      Fence \o <<"d", "o", "t", "\n">> \o Fence,
      Fence \o <<"d", "o", "t", "\n", "$", "$">> \o Fence,
      InlineDiagramTag \o <<"e", "r", "d", "\n", "a", "\n">> \o CloseBraces,
      Fence \o <<"d", "o", "t", "\n", "a">> }

SearchSegments ==
    { <<"x">>,
      ImageTag \o <<" ", "a">> \o CloseBraces,
      ImageTag \o <<"a">> \o CloseBraces,
      ImageTag \o <<" ", "b">> \o CloseBraces,
      ImageTag \o <<" ", "$", "&">> \o CloseBraces,
      ImageTag \o <<" ">> \o CloseBraces,
      ImageTag \o <<" ", "a">> }

GenerationSegments ==
    { <<"x">>,
      OpenBraces \o <<"G", "E", "N", "E", "R", "A", "T", "E", ":", " ", "a">> \o CloseBraces,
      OpenBraces \o <<"g", "e", "n", "e", "r", "a", "t", "e", ":", "b">> \o CloseBraces,
      OpenBraces \o <<"D", "I", "A", "G", "R", "A", "M", ":", " ", "a">> \o CloseBraces,
      OpenBraces \o <<"G", "E", "N", "E", "R", "A", "T", "E", ":", " ", "$", "&">> \o CloseBraces,
      OpenBraces \o <<"G", "E", "N", "E", "R", "A", "T", "E", ":", " ", "a">> }

RECURSIVE Flatten(_)
Flatten(segs) ==
    IF segs = <<>> THEN <<>> ELSE Head(segs) \o Flatten(Tail(segs))

Documents(segments) ==
    {Flatten(segs) : segs \in UNION {[1..k -> segments] : k \in 0..MaxSegs}}

\* texts given with their structure: literal text and well-formed directives,
\* each directive with the kind, type and payload its grammar gives it
StructuredSegments ==
    { [kind |-> "literal", text |-> <<"x">>, type |-> <<>>, payload |-> <<>>],
      [kind |-> "literal", text |-> <<"\n">>, type |-> <<>>, payload |-> <<>>],
      [kind |-> "image", text |-> ImageTag \o <<" ", "a">> \o CloseBraces,
       type |-> <<>>, payload |-> <<"a">>],
      [kind |-> "image", text |-> ImageTag \o <<" ", " ", "b", " ">> \o CloseBraces,
       type |-> <<>>, payload |-> <<"b">>],
      [kind |-> "image", text |-> ImageTag \o <<" ">> \o CloseBraces,
       type |-> <<>>, payload |-> <<>>],
      [kind |-> "generation",
       text |-> OpenBraces \o <<"G", "E", "N", "E", "R", "A", "T", "E", ":", " ", "a">>
                    \o CloseBraces,
       type |-> <<"G", "E", "N", "E", "R", "A", "T", "E">>, payload |-> <<"a">>],
      [kind |-> "generation",
       text |-> OpenBraces \o <<"D", "i", "a", "g", "r", "a", "m", ":", " ", "b", " ">>
                    \o CloseBraces,
       type |-> <<"D", "I", "A", "G", "R", "A", "M">>, payload |-> <<"b">>],
      [kind |-> "diagram", text |-> Fence \o <<"d", "o", "t", "\n", "a">> \o Fence,
       type |-> Dot, payload |-> <<"a">>],
      [kind |-> "diagram",
       text |-> Fence \o <<"M", "e", "r", "m", "a", "i", "d", "\n", " ", "b", "\n">>
                    \o Fence,
       type |-> Mermaid, payload |-> <<"b">>],
      [kind |-> "diagram",
       text |-> InlineDiagramTag \o <<"e", "r", "d", "\n", "a", "\n">> \o CloseBraces,
       type |-> <<"e", "r", "d">>, payload |-> <<"a">>] }

StructuredDocuments ==
    UNION {[1..k -> StructuredSegments] : k \in 0..MaxSegs}

\* the text of a structured document
TextOf(segs) ==
    Flatten([k \in 1..Len(segs) |-> segs[k].text])

\* pieces of Mermaid sources: statements with and without connectors, exempt
\* lines, a stripped quote, and white space between a closer and a node
MermaidSegments ==
    { <<"A", "[", "L", "]", " ", "-", "-", "-", " ", "B", "[", "L", "]">>,
      <<" ", " ", " ", " ", "C", "[", "L", "]", " ", "-", "-", "-", " ", "D">>,
      <<"\n">>,
      <<"'">>,
      <<"A", "-", "-", ">", "B">>,
      <<" ", "x">>,
      <<"g", "r", "a", "p", "h", " ", "T", "D", "\n">>,
      <<"A", "-", ".", "-", ">", "B">>,
      <<"A", "-", "-", ">", "B", ":">>,
      <<"A", "-", "x", "-", ">", "B">>,
      <<"a", "|", "b">>,
      <<"f", "(", "x", ")", " ", " ", "g", "{", "y", "}">>,
      <<" ", "\n", " ", "C", "[", "L", "]">>,
      <<"e", "n", "d">>,
      <<"A", "-", "-", ">", "B", ";">> }

MermaidSources ==
    UNION {[1..k -> MermaidSegments] : k \in 0..MaxSegs}

\* arguments of a direct call of generateDiagram(type, source)
DiagramCalls ==
    [type : {Dot, <<"D", "O", "T">>, <<"D", "o", "t">>, <<"e", "r", "d">>,
             <<"x", "y">>, <<"X", "y">>,
             <<"c", "o", "n", "s", "t", "r", "u", "c", "t", "o", "r">>, Mermaid},
     source : {<<"a">>, <<" ", "a", "\n">>, <<" ">>, <<"A", "-", "-", ">", "B">>}]

\* the options of generateImage when the caller passes none
DefaultOptions(useCloudinary) ==
    [maxRetries |-> DefaultMaxRetries, retryDelay |-> DefaultRetryDelay,
     useCloudinary |-> useCloudinary]

(***************************************************************************)
(* Initial states: one operation, about to run on its input.               *)
(***************************************************************************)
InitCommon ==
    /\ content = original
    /\ idx = 1
    /\ results = <<>>
    /\ manifest = <<>>
    /\ replaced = <<>>
    /\ calls = 0
    /\ attempt = 0
    /\ events = <<>>
    /\ ret = Undefined

InitPass ==
    /\ mode \in {"diagrams", "search", "generation"}
    /\ pc = "entry"
    /\ original \in Documents(CASE mode = "diagrams" -> DiagramSegments
                                [] mode = "search" -> SearchSegments
                                [] OTHER -> GenerationSegments)
    /\ blocks = <<>>
    /\ \E c \in (IF mode = "generation" THEN BOOLEAN ELSE {TRUE}) :
          opts = DefaultOptions(c)
    /\ InitCommon

InitGenerateDiagram ==
    /\ mode = "generateDiagram"
    /\ pc = "call"
    /\ original = <<>>
    /\ \E a \in DiagramCalls :
          blocks = << [fullMatch |-> <<>>, type |-> a.type, source |-> a.source,
                       position |-> 0] >>
    /\ opts = DefaultOptions(TRUE)
    /\ InitCommon

InitGenerateImage ==
    /\ mode = "generateImage"
    /\ pc = "call"
    /\ original = <<>>
    /\ blocks = << [fullMatch |-> <<>>, type |-> <<>>, description |-> <<"a">>,
                    position |-> 0] >>
    /\ opts \in [maxRetries : 0..MaxRetriesOpt, retryDelay : {0, DefaultRetryDelay},
                 useCloudinary : BOOLEAN]
    /\ InitCommon

\* a direct call of generateDiagram(type, source, format) of utils/kroki.js
InitKrokiJsGenerateDiagram ==
    /\ mode = "krokiGenerateDiagram"
    /\ pc = "call"
    /\ original = <<>>
    /\ \E a \in DiagramCalls, f \in {<<"s", "v", "g">>, <<"p", "n", "g">>} :
          blocks = << [fullMatch |-> <<>>, type |-> a.type, source |-> a.source,
                       position |-> 0, format |-> f] >>
    /\ opts = DefaultOptions(FALSE)
    /\ InitCommon

\* the three extractors about to scan one text
InitExtract ==
    /\ mode = "extract"
    /\ pc = "call"
    /\ blocks \in StructuredDocuments
    /\ original = TextOf(blocks)
    /\ opts = DefaultOptions(FALSE)
    /\ InitCommon

\* a Mermaid source about to be sanitized, by either version of the code
InitSanitize ==
    /\ mode \in {"sanitizeMermaidSource", "krokiSanitize"}
    /\ pc = "call"
    /\ blocks \in MermaidSources
    /\ original = Flatten(blocks)
    /\ opts = DefaultOptions(FALSE)
    /\ InitCommon

\* the characters the sources to encode are made of
EncodeAlphabet ==
    {"a", "z", ">", "~", "\n"}

\* a source about to be encoded for the URL of the rendering service
InitEncode ==
    /\ mode = "encode"
    /\ pc = "call"
    /\ blocks = <<>>
    /\ original \in UNION {[1..n -> EncodeAlphabet] : n \in 0..MaxSourceLen}
    /\ opts = DefaultOptions(FALSE)
    /\ InitCommon

\* the calls of generateDiagram that run side by side
ConcurrentCalls ==
    [type : {Dot, <<"D", "O", "T">>, Mermaid},
     source : {<<"a">>, <<" ", "a", "\n">>, <<"A", "-", "-", ">", "B">>,
               <<"A", "-", "-", ">", "B", ";">>}]

Resolutions ==
    {1, 2}

\* two calls of generateDiagram under way at once, as when two requests of the
\* server hold the same diagram; results[p] is the state of call p, manifest
\* is what the storage service holds
InitConcurrent ==
    /\ mode = "concurrent"
    /\ pc = "run"
    /\ blocks \in [Resolutions -> ConcurrentCalls]
    /\ original = <<>>
    /\ content = <<>>
    /\ idx = 1
    /\ results = [p \in Resolutions |-> [at |-> "call", ret |-> Undefined]]
    /\ manifest = <<>>
    /\ replaced = <<>>
    /\ calls = 0
    /\ attempt = 0
    /\ events = <<>>
    /\ ret = Undefined
    /\ opts = DefaultOptions(FALSE)

\* arguments of a call of the version of generateDiagram that prefers a GET URL
UrlDiagramCalls ==
    [type : {Dot, Mermaid},
     source : {<<"a">>, <<"A", "-", "-", ">", "B">>, Filler(UrlSourceLimit - 1),
               Filler(UrlSourceLimit)},
     format : {<<"s", "v", "g">>, <<"p", "n", "g">>}]

InitUrlGenerateDiagram ==
    /\ mode = "urlGenerateDiagram"
    /\ pc = "call"
    /\ original = <<>>
    /\ \E a \in UrlDiagramCalls :
          blocks = << [fullMatch |-> <<>>, type |-> a.type, source |-> a.source,
                       position |-> 0, format |-> a.format] >>
    /\ opts = DefaultOptions(FALSE)
    /\ InitCommon

\* a call of generateWithFallback(content) of config/gemini.js
InitGenerateWithFallback ==
    /\ mode = "generateWithFallback"
    /\ pc = "call"
    /\ original = <<>>
    /\ blocks = <<>>
    /\ opts = DefaultOptions(FALSE)
    /\ InitCommon

\* the routes of the spaces router, serving requests on the one space the model
\* follows; manifest is the Space collection, events the request last served,
\* ret the response to it
InitSpaces ==
    /\ mode = "spaces"
    /\ pc = "serve"
    /\ original = <<>>
    /\ blocks = <<>>
    /\ opts = DefaultOptions(FALSE)
    /\ InitCommon

\* POST /create of the materials router for the subject s1 and DELETE /:subjectId
\* of that subject, both about to be served.  manifest is the store (subjects and
\* materials), results the position and the response of each request, replaced
\* the timer of withTimeout and the promise of generateWithFallback, calls the
\* clock in milliseconds
InitCreateMaterial ==
    /\ mode = "createMaterial"
    /\ pc = "run"
    /\ original = <<>>
    /\ content = <<>>
    /\ blocks = <<>>
    /\ idx = 1
    /\ opts = DefaultOptions(FALSE)
    /\ manifest = [subjects |-> {"s1"},
                   materials |-> {[id |-> "m0", subjectId |-> "s1"]}]
    /\ results = [create |-> [at |-> "start", status |-> 0, message |-> "",
                              started |-> 0, ended |-> 0],
                  delete |-> [at |-> "start", status |-> 0, message |-> "",
                              started |-> 0, ended |-> 0]]
    /\ replaced = [timer |-> "unset", due |-> 0, generation |-> "idle",
                   settledAt |-> 0]
    /\ calls = 0
    /\ attempt = 0
    /\ events = <<>>
    /\ ret = Undefined

Init ==
    \/ InitPass
    \/ InitGenerateDiagram
    \/ InitGenerateImage
    \/ InitKrokiJsGenerateDiagram
    \/ InitExtract
    \/ InitSanitize
    \/ InitEncode
    \/ InitConcurrent
    \/ InitUrlGenerateDiagram
    \/ InitGenerateWithFallback
    \/ InitSpaces
    \/ InitCreateMaterial

(***************************************************************************)
(* The rewrite step of each loop, run when the resolver call returns.      *)
(***************************************************************************)
\* one entry of events: a response (with its body, when it has one) or a sleep
Event(ev, r, ms) ==
    [ev |-> ev, outcome |-> r.outcome, status |-> r.status,
     data |-> IF "data" \in DOMAIN r THEN r.data ELSE <<>>,
     typeofData |-> IF "typeofData" \in DOMAIN r THEN r.typeofData ELSE "buffer",
     request |-> IF "request" \in DOMAIN r THEN r.request
                 ELSE [url |-> <<>>, body |-> <<>>],
     ms |-> ms]

\* the symbolic digest crypto.createHash('md5')...substring(0, 12) of a text
Md5Hex12(text) ==
    <<"#">> \o text

\* `diagram_${diagramType}_${hash}`
DiagramPublicId(diagramType, cleanedSource) ==
    <<"d", "i", "a", "g", "r", "a", "m", "_">> \o diagramType \o <<"_">>
        \o Md5Hex12(cleanedSource)

\* generateDiagram: the source that is posted
CleanedSource(block) ==
    LET trimmed == Trim(block.source)
    IN  IF DiagramTypeOf(block.type) = Mermaid
        THEN sanitizeMermaidSource(trimmed) ELSE trimmed

\* the loop of the pass moves to the next directive, or the pass returns
NextDirective ==
    IF idx < Len(blocks)
    THEN idx' = idx + 1 /\ pc' = "call"
    ELSE idx' = idx /\ pc' = "done"

\* variant: the entry of the manifest is pushed before the test of result.success
DiagramBlockDoneListsFailures(result) ==
    LET block == blocks[idx]
    IN  /\ results' = Append(results, result)
        /\ replaced' = Append(replaced, block.position)
        /\ manifest' = Append(manifest,
                [type |-> block.type, url |-> result.url,
                 publicId |-> result.publicId, source |-> block.source])
        /\ content' = Replace(content, block.fullMatch,
                          IF result.success
                          THEN DiagramImageMarkdown(block, result)
                          ELSE DiagramFailureNote(block, result))
        /\ NextDirective

\* processDiagramBlocks: the body of the loop after await generateDiagram(...)
DiagramBlockDone(result) ==
    LET block == blocks[idx]
    IN  /\ results' = Append(results, result)
        /\ replaced' = Append(replaced, block.position)
        /\ IF result.success
           THEN /\ manifest' = Append(manifest,
                        [type |-> block.type, url |-> result.url,
                         publicId |-> result.publicId, source |-> block.source])
                /\ content' = Replace(content, block.fullMatch,
                                      DiagramImageMarkdown(block, result))
           ELSE /\ manifest' = manifest
                /\ content' = Replace(content, block.fullMatch,
                                      DiagramFailureNote(block, result))
        /\ NextDirective

\* processImageGenerationRequests: the body of the loop after await generateImage(...);
\* reading result.success of undefined throws
GenerationRequestDone(result) ==
    LET request == blocks[idx]
    IN  IF ~result.defined
        THEN /\ pc' = "thrown"
             /\ UNCHANGED <<results, replaced, manifest, content, idx>>
        ELSE /\ results' = Append(results, result)
             /\ replaced' = Append(replaced, request.position)
             /\ IF result.success
                THEN /\ manifest' = Append(manifest,
                             [placeholder |-> request.fullMatch,
                              description |-> request.description,
                              url |-> result.url, type |-> "generated"])
                     /\ content' = Replace(content, request.fullMatch,
                                           GeneratedImageMarkdown(request, result))
                ELSE /\ manifest' = manifest
                     /\ content' = Replace(content, request.fullMatch,
                                           GenerationPendingNote(request))
             /\ NextDirective

\* a resolver call returns result to its caller
Return(result) ==
    /\ ret' = result
    /\ CASE mode = "diagrams" -> DiagramBlockDone(result)
         [] mode = "generation" -> GenerationRequestDone(result)
         [] OTHER -> /\ pc' = "done"
                     /\ UNCHANGED <<results, replaced, manifest, content, idx>>

NotReturned ==
    UNCHANGED <<ret, results, replaced, manifest, content, idx>>

(***************************************************************************)
(* processDiagramBlocks and generateDiagram.                               *)
(***************************************************************************)
\* processDiagramBlocks up to its loop
ProcessDiagramBlocksEntry ==
    /\ mode = "diagrams" /\ pc = "entry"
    /\ LET diagramBlocks == extractDiagramBlocks(content)
       IN  IF Len(diagramBlocks) = 0
           THEN blocks' = <<>> /\ pc' = "done"
           ELSE blocks' = SortByPositionDesc(diagramBlocks) /\ pc' = "call"
    /\ UNCHANGED <<mode, original, content, idx, results, manifest, replaced,
                   calls, opts, attempt, events, ret>>

\* axios.post(`${KROKI_BASE_URL}/${diagramType}/png`, cleanedSource, ...)
PostRequest(block) ==
    [url  |-> <<"K", "/">> \o DiagramTypeOf(block.type) \o <<"/", "p", "n", "g">>,
     body |-> CleanedSource(block)]

\* generateDiagram up to the await of axios.post
GenerateDiagramCall ==
    /\ mode \in {"diagrams", "generateDiagram"} /\ pc = "call"
    /\ events' = <<>>
    /\ IF Trim(blocks[idx].source) = <<>>
       THEN Return(Failure(EmptyDiagramSource)) /\ calls' = calls
       ELSE pc' = "post" /\ calls' = calls + 1 /\ NotReturned
    /\ UNCHANGED <<mode, original, blocks, opts, attempt>>

\* variant: without validateStatus a 4xx status is thrown like a 5xx one
KrokiPostResponseDefaultStatus ==
    /\ pc = "post"
    /\ \E r \in KrokiResponses :
          /\ events' = Append(events,
                Event("post", r @@ [request |-> PostRequest(blocks[idx])], 0))
          /\ IF r.outcome = "response" /\ r.status < 300
             THEN pc' = "upload" /\ calls' = calls + 1 /\ NotReturned
             ELSE /\ Return(Failure(IF r.outcome = "response"
                                    THEN Substring0(r.data, CatchErrorLimit)
                                    ELSE ErrorMessage(r.outcome)))
                  /\ calls' = calls
    /\ UNCHANGED <<mode, original, blocks, opts, attempt>>

\* axios.post ends: validateStatus lets every status under 500 through
KrokiPostResponse ==
    /\ pc = "post"
    /\ \E r \in KrokiResponses :
          /\ events' = Append(events,
                Event("post", r @@ [request |-> PostRequest(blocks[idx])], 0))
          /\ IF r.outcome = "response" /\ r.status < 500
             THEN IF r.status >= 400
                  THEN /\ Return(Failure(SyntaxErrorPrefix
                                    \o Substring0(r.data, SyntaxErrorLimit)))
                       /\ calls' = calls
                  ELSE pc' = "upload" /\ calls' = calls + 1 /\ NotReturned
             ELSE /\ Return(Failure(IF r.outcome = "response"
                                    THEN Substring0(r.data, CatchErrorLimit)
                                    ELSE ErrorMessage(r.outcome)))
                  /\ calls' = calls
    /\ UNCHANGED <<mode, original, blocks, opts, attempt>>

\* uploadToCloudinary ends
DiagramUploadResponse ==
    /\ pc = "upload"
    /\ \/ \E url \in Urls :
             /\ events' = Append(events,
                    Event("upload", [outcome |-> "ok", status |-> 200], 0))
             /\ Return(Success(url,
                    DiagramPublicId(DiagramTypeOf(blocks[idx].type),
                                    CleanedSource(blocks[idx]))))
       \/ /\ events' = Append(events,
                    Event("upload", [outcome |-> "error", status |-> 0], 0))
          /\ Return(Failure(ErrorMessage("upload")))
    /\ UNCHANGED <<mode, original, blocks, opts, attempt, calls>>

(***************************************************************************)
(* generateDiagram of utils/kroki.js: the rendering is returned as a data  *)
(* URL (svg) or as a URL of the rendering service (other formats).         *)
(***************************************************************************)
InvalidDiagramSyntax ==
    <<"I", "n", "v", "a", "l", "i", "d", " ", "d", "i", "a", "g", "r", "a", "m", " ",
      "s", "y", "n", "t", "a", "x">>

\* Buffer.from(svgContent).toString('base64'), kept symbolic
Base64(text) ==
    <<"b", "6", "4", "(">> \o text \o <<")">>

\* `data:image/svg+xml;base64,${base64}`
SvgDataUrl(svgContent) ==
    <<"d", "a", "t", "a", ":", "i", "m", "a", "g", "e", "/", "s", "v", "g", "+", "x",
      "m", "l", ";", "b", "a", "s", "e", "6", "4", ",">> \o Base64(svgContent)

(***************************************************************************)
(* encodeDiagramSource: zlib.deflateSync, then base64 made safe for URLs.  *)
(* Bytes are numbers of 0..255, bits are 0 and 1.                          *)
(***************************************************************************)
\* Buffer.from(string): the UTF-8 byte of each character the sources are made of
Utf8Byte(c) ==
    CASE c = "\n" -> 10 [] c = " " -> 32 [] c = "-" -> 45 [] c = ">" -> 62
      [] c = "A" -> 65 [] c = "B" -> 66 [] c = "a" -> 97 [] c = "z" -> 122
      [] c = "~" -> 126

Utf8Bytes(source) ==
    [k \in 1..Len(source) |-> Utf8Byte(source[k])]

\* the low n bits of v, most significant first
BitsMsb(v, n) ==
    [k \in 1..n |-> (v \div (2 ^ (n - k))) % 2]

\* the number whose binary digits are bits, most significant first
RECURSIVE ValueMsb(_)
ValueMsb(bits) ==
    IF bits = <<>> THEN 0
    ELSE 2 * ValueMsb(SubSeq(bits, 1, Len(bits) - 1)) + bits[Len(bits)]

\* deflate fills each byte from its least significant bit
PackedByte(bits, k) ==
    ValueMsb([j \in 1..8 |-> LET at == 8 * (k - 1) + 9 - j
                             IN  IF at <= Len(bits) THEN bits[at] ELSE 0])

PackBits(bits) ==
    [k \in 1..((Len(bits) + 7) \div 8) |-> PackedByte(bits, k)]

\* one final block with the fixed Huffman codes: zlib writes a source of up to
\* four bytes as literals, without back-references, and every byte below 144 has the
\* 8-bit code 00110000 + byte; the end-of-block code is seven zeros
DeflateBlockBits(bytes) ==
    <<1, 1, 0>>
    \o Flatten([k \in 1..Len(bytes) |-> BitsMsb(48 + bytes[k], 8)])
    \o <<0, 0, 0, 0, 0, 0, 0>>

\* the two sums of Adler-32 after the first n bytes
RECURSIVE AdlerSums(_, _)
AdlerSums(bytes, n) ==
    IF n = 0 THEN [a |-> 1, b |-> 0]
    ELSE LET before == AdlerSums(bytes, n - 1)
             a == (before.a + bytes[n]) % 65521
         IN  [a |-> a, b |-> (before.b + a) % 65521]

Adler32Bytes(bytes) ==
    LET sums == AdlerSums(bytes, Len(bytes))
    IN  <<sums.b \div 256, sums.b % 256, sums.a \div 256, sums.a % 256>>

\* zlib.deflateSync(source): header 78 9C, the block, the checksum
deflateSync(source) ==
    LET bytes == Utf8Bytes(source)
    IN  <<120, 156>> \o PackBits(DeflateBlockBits(bytes)) \o Adler32Bytes(bytes)

Base64Alphabet ==
    <<"A", "B", "C", "D", "E", "F", "G", "H", "I", "J", "K", "L", "M", "N", "O", "P",
      "Q", "R", "S", "T", "U", "V", "W", "X", "Y", "Z", "a", "b", "c", "d", "e", "f",
      "g", "h", "i", "j", "k", "l", "m", "n", "o", "p", "q", "r", "s", "t", "u", "v",
      "w", "x", "y", "z", "0", "1", "2", "3", "4", "5", "6", "7", "8", "9", "+", "/">>

\* the base64 characters of up to three bytes, padded with =
Base64Group(bytes) ==
    LET bits  == Flatten([k \in 1..Len(bytes) |-> BitsMsb(bytes[k], 8)])
                     \o [k \in 1..((6 - ((8 * Len(bytes)) % 6)) % 6) |-> 0]
        chars == [k \in 1..(Len(bits) \div 6) |->
                     Base64Alphabet[1 + ValueMsb(SubSeq(bits, 6 * k - 5, 6 * k))]]
    IN  chars \o [k \in 1..(4 - Len(chars)) |-> "="]

\* Buffer.prototype.toString('base64')
RECURSIVE ToBase64(_)
ToBase64(bytes) ==
    IF bytes = <<>> THEN <<>>
    ELSE IF Len(bytes) <= 3 THEN Base64Group(bytes)
    ELSE Base64Group(SubSeq(bytes, 1, 3)) \o ToBase64(SubSeq(bytes, 4, Len(bytes)))

\* replace(/\+/g, '-').replace(/\//g, '_')
UrlSafeChars(s) ==
    [k \in 1..Len(s) |-> CASE s[k] = "+" -> "-" [] s[k] = "/" -> "_" [] OTHER -> s[k]]

\* replace(/=+$/, '')
StripPadding(s) ==
    SubSeq(s, 1, SetMax({n \in 0..Len(s) : n = 0 \/ s[n] # "="}))

\* the base64 text left as the library gives it
EncodeStandardBase64(source) ==
    ToBase64(deflateSync(source))

\* sources of more than four characters, for which zlib may choose
\* back-references and other codes, keep an encoding that is only named
encodeDiagramSource(source) ==
    IF Len(source) <= 4
    THEN StripPadding(UrlSafeChars(ToBase64(deflateSync(source))))
    ELSE <<"z", "(">> \o source \o <<")">>

\* getDiagramUrl: `${KROKI_BASE_URL}/${diagramType}/${format}/${encoded}`
getDiagramUrl(type, source, format) ==
    <<"K", "/">> \o DiagramTypeOf(type) \o <<"/">> \o format \o <<"/">>
        \o encodeDiagramSource(source)

\* axios.post(`${KROKI_BASE_URL}/${diagramType}/${format}`, cleanedSource, ...)
KrokiJsPostRequest(block) ==
    [url  |-> <<"K", "/">> \o DiagramTypeOf(block.type) \o <<"/">> \o block.format,
     body |-> IF DiagramTypeOf(block.type) = Mermaid
              THEN KrokiJsCleanedSource(block.source) ELSE Trim(block.source)]

\* generateDiagram up to the await of axios.post
KrokiJsGenerateDiagramCall ==
    /\ mode = "krokiGenerateDiagram" /\ pc = "call"
    /\ events' = <<>>
    /\ IF Trim(blocks[idx].source) = <<>>
       THEN Return(Failure(EmptyDiagramSource)) /\ calls' = calls
       ELSE pc' = "kpost" /\ calls' = calls + 1 /\ NotReturned
    /\ UNCHANGED <<mode, original, blocks, opts, attempt>>

\* axios.post ends.  A 4xx body that is no string is reported with a fixed text;
\* Buffer.from of a body that is no string throws into the catch block, which
\* returns error.message
KrokiJsPostResponse ==
    /\ pc = "kpost"
    /\ \E r \in KrokiJsResponses :
          /\ events' = Append(events,
                Event("post", r @@ [request |-> KrokiJsPostRequest(blocks[idx])], 0))
          /\ IF r.outcome = "response" /\ r.status < 500
             THEN IF r.status >= 400
                  THEN Return(Failure(SyntaxErrorPrefix
                          \o (IF r.typeofData = "string"
                              THEN Substring0(r.data, CatchErrorLimit)
                              ELSE InvalidDiagramSyntax)))
                  ELSE IF blocks[idx].format = <<"s", "v", "g">>
                  THEN IF r.typeofData = "string"
                       THEN Return(Success(SvgDataUrl(r.data), <<>>))
                       ELSE Return(Failure(ErrorMessage("type")))
                  ELSE Return(Success(getDiagramUrl(blocks[idx].type,
                                  blocks[idx].source, blocks[idx].format), <<>>))
             ELSE Return(Failure(ErrorMessage(r.outcome)))
    /\ UNCHANGED <<mode, original, blocks, opts, attempt, calls>>

(***************************************************************************)
(* The image-search pass of POST /create, searchImages and                 *)
(* replaceImagePlaceholders.                                               *)
(***************************************************************************)
\* variant: an item is mapped whether or not it has its image field
searchImagesAnyItem(r) ==
    IF r.outcome # "response" THEN <<>>
    ELSE [k \in 1..Len(r.items) |-> [url |-> r.items[k].link]]

\* searchImages: the value it returns for what axios.get ended with; an item
\* without its image field makes the map callback throw, which the catch turns
\* into the empty list
searchImages(r) ==
    IF r.outcome # "response" THEN <<>>
    ELSE IF Len(r.items) > 0
    THEN IF \E k \in 1..Len(r.items) : ~r.items[k].image
         THEN <<>>
         ELSE [k \in 1..Len(r.items) |-> [url |-> r.items[k].link]]
    ELSE <<>>

\* variant: the queries of all placeholders are sent before any is awaited
ImagePassEntryAllAtOnce ==
    /\ mode = "search" /\ pc = "entry"
    /\ LET placeholders == extractImagePlaceholders(content)
       IN  IF Len(placeholders) > 0
           THEN blocks' = placeholders /\ pc' = "search"
                    /\ calls' = calls + Len(placeholders)
           ELSE blocks' = <<>> /\ pc' = "done" /\ calls' = calls
    /\ UNCHANGED <<mode, original, content, idx, results, manifest, replaced,
                   opts, attempt, events, ret>>

\* the pass up to the first await of searchImages
ImagePassEntry ==
    /\ mode = "search" /\ pc = "entry"
    /\ LET placeholders == extractImagePlaceholders(content)
       IN  IF Len(placeholders) > 0
           THEN blocks' = placeholders /\ pc' = "search" /\ calls' = calls + 1
           ELSE blocks' = <<>> /\ pc' = "done" /\ calls' = calls
    /\ UNCHANGED <<mode, original, content, idx, results, manifest, replaced,
                   opts, attempt, events, ret>>

\* searchImages returns: the loop goes on, and after the last placeholder
\* replaceImagePlaceholders rewrites the text
SearchResponse ==
    /\ mode = "search" /\ pc = "search"
    /\ \E r \in SearchResponses :
          LET placeholder   == blocks[idx]
              searchResults == searchImages(r)
              images        == IF Len(searchResults) > 0
                               THEN Append(manifest,
                                        [placeholder |-> placeholder.description,
                                         url |-> searchResults[1].url,
                                         position |-> placeholder.position,
                                         type |-> "search"])
                               ELSE manifest
          IN  /\ events' = <<Event("search", [outcome |-> r.outcome, status |-> 0,
                                                data |-> r.items], 0)>>
              /\ results' = Append(results,
                                IF Len(searchResults) > 0
                                THEN Success(searchResults[1].url, <<>>)
                                ELSE Failure(<<>>))
              /\ IF idx < Len(blocks)
                 THEN /\ idx' = idx + 1
                      /\ calls' = calls + 1
                      /\ manifest' = images
                      /\ UNCHANGED <<pc, content, replaced>>
                 ELSE /\ manifest' = SortByPositionDesc(images)
                      /\ content' = replaceImagePlaceholders(content, images)
                      /\ replaced' = [k \in 1..Len(images) |->
                                         SortByPositionDesc(images)[k].position]
                      /\ pc' = "done"
                      /\ UNCHANGED <<idx, calls>>
    /\ UNCHANGED <<mode, original, blocks, opts, attempt, ret>>

(***************************************************************************)
(* processImageGenerationRequests and generateImage.                       *)
(***************************************************************************)
\* processImageGenerationRequests up to its loop
ProcessImageGenerationEntry ==
    /\ mode = "generation" /\ pc = "entry"
    /\ LET requests == extractGenerationRequests(content)
       IN  /\ blocks' = requests
           /\ pc' = IF Len(requests) = 0 THEN "done" ELSE "call"
    /\ UNCHANGED <<mode, original, content, idx, results, manifest, replaced,
                   calls, opts, attempt, events, ret>>

\* the test of the retry loop with the loop variable at n: the next request is
\* sent, or the function falls off its end
RetryLoop(n) ==
    /\ attempt' = n
    /\ IF n <= opts.maxRetries
       THEN pc' = "get" /\ calls' = calls + 1 /\ NotReturned
       ELSE Return(Undefined) /\ calls' = calls

\* generateImage up to the await of axios.get
GenerateImageCall ==
    /\ mode \in {"generation", "generateImage"} /\ pc = "call"
    /\ events' = <<>>
    /\ RetryLoop(1)
    /\ UNCHANGED <<mode, original, blocks, opts>>

\* variant: the catch block without the test of the last attempt
GenerateImageCatchNoLast(is502, message) ==
    IF is502
    THEN pc' = "sleep" /\ NotReturned
    ELSE Return(Failure(message))

\* variant: the catch block retries whatever the error was
GenerateImageCatchAnyError(is502, message) ==
    IF attempt # opts.maxRetries
    THEN pc' = "sleep" /\ NotReturned
    ELSE Return(Failure(message))

\* the catch block: a 502 before the last attempt sleeps, anything else returns
GenerateImageCatch(is502, message) ==
    LET isLastAttempt == attempt = opts.maxRetries
    IN  IF is502 /\ ~isLastAttempt
        THEN pc' = "sleep" /\ NotReturned
        ELSE Return(Failure(message))

\* axios.get ends
PollinationsResponse ==
    /\ pc = "get"
    /\ \E r \in PollinationsResponses :
          /\ events' = Append(events, Event("get", r, 0))
          /\ IF r.outcome = "response" /\ r.status = 200
             THEN IF opts.useCloudinary
                  THEN pc' = "gupload" /\ calls' = calls + 1 /\ NotReturned
                  ELSE /\ \E url \in Urls : Return(Success(url, <<>>))
                       /\ calls' = calls
             ELSE /\ GenerateImageCatch(r.outcome = "response" /\ r.status = 502,
                                        ErrorMessage(r.outcome))
                  /\ calls' = calls
    /\ UNCHANGED <<mode, original, blocks, opts, attempt>>

\* the upload of the generated image ends; an upload error carries no response
GeneratedUploadResponse ==
    /\ pc = "gupload"
    /\ \/ \E url \in Urls :
             /\ events' = Append(events,
                    Event("upload", [outcome |-> "ok", status |-> 200], 0))
             /\ Return(Success(url, <<>>))
       \/ /\ events' = Append(events,
                    Event("upload", [outcome |-> "error", status |-> 0], 0))
          /\ GenerateImageCatch(FALSE, ErrorMessage("upload"))
    /\ UNCHANGED <<mode, original, blocks, opts, attempt, calls>>

\* variant: the delay grows with the attempt
SleepElapsedBackoff ==
    /\ pc = "sleep"
    /\ events' = Append(events,
            Event("sleep", [outcome |-> "elapsed", status |-> 0],
                  opts.retryDelay * attempt))
    /\ RetryLoop(attempt + 1)
    /\ UNCHANGED <<mode, original, blocks, opts>>

\* sleep(retryDelay) ends: continue with the next attempt
SleepElapsed ==
    /\ pc = "sleep"
    /\ events' = Append(events,
            Event("sleep", [outcome |-> "elapsed", status |-> 0], opts.retryDelay))
    /\ RetryLoop(attempt + 1)
    /\ UNCHANGED <<mode, original, blocks, opts>>

(***************************************************************************)
(* Specification.                                                          *)
(***************************************************************************)
\* the three extractors scan the text
ExtractDirectives ==
    /\ mode = "extract" /\ pc = "call"
    /\ ret' = [images   |-> extractImagePlaceholders(content),
               requests |-> extractGenerationRequests(content),
               diagrams |-> extractDiagramBlocks(content)]
    /\ pc' = "done"
    /\ UNCHANGED <<mode, original, content, blocks, idx, results, manifest,
                   replaced, calls, opts, attempt, events>>

(***************************************************************************)
(* The sanitizer applied to a source, and then to what it returned.        *)
(***************************************************************************)
SanitizeMermaidSourceCall ==
    /\ mode = "sanitizeMermaidSource" /\ pc \in {"call", "once"}
    /\ content' = sanitizeMermaidSource(content)
    /\ ret' = [input |-> content, output |-> content']
    /\ pc' = IF pc = "call" THEN "once" ELSE "done"
    /\ calls' = calls + 1
    /\ UNCHANGED <<mode, original, blocks, idx, results, manifest,
                   replaced, opts, attempt, events>>

KrokiJsSanitizeCall ==
    /\ mode = "krokiSanitize" /\ pc \in {"call", "once"}
    /\ content' = KrokiJsCleanedSource(content)
    /\ ret' = [input |-> content, output |-> content']
    /\ pc' = IF pc = "call" THEN "once" ELSE "done"
    /\ calls' = calls + 1
    /\ UNCHANGED <<mode, original, blocks, idx, results, manifest,
                   replaced, opts, attempt, events>>

EncodeDiagramSourceCall ==
    /\ mode = "encode" /\ pc = "call"
    /\ ret' = [encoded |-> encodeDiagramSource(content)]
    /\ pc' = "done"
    /\ UNCHANGED <<mode, original, content, blocks, idx, results, manifest,
                   replaced, calls, opts, attempt, events>>

(***************************************************************************)
(* Two calls of generateDiagram interleaved at their awaits, and the       *)
(* storage service they upload to.                                         *)
(***************************************************************************)
\* variant: public_id left out of the upload options, the service names the object
UploadedIdGenerated(publicId, p) ==
    <<"F", "/", "r", CHOOSE d \in DigitChars : ToString(p) = d>>

\* uploadToCloudinary: result.public_id of upload number p; with public_id among
\* the options it is the folder and that name, otherwise a name the service makes
UploadedId(publicId, p) ==
    IF publicId # <<>> THEN <<"F", "/">> \o publicId
    ELSE <<"F", "/", "r", CHOOSE d \in DigitChars : ToString(p) = d>>

\* the storage service after an upload: an object of the same name is replaced
StoredAfter(store, id, p) ==
    IF \E m \in 1..Len(store) : store[m].publicId = id
    THEN [m \in 1..Len(store) |->
             IF store[m].publicId = id THEN [publicId |-> id, from |-> p]
             ELSE store[m]]
    ELSE Append(store, [publicId |-> id, from |-> p])

\* call p moves to its next await, or returns
ResolutionAt(p, at, result) ==
    /\ results' = [results EXCEPT ![p] = [at |-> at, ret |-> result]]
    /\ pc' = IF \A q \in Resolutions : q = p \/ results[q].at = "done"
             THEN (IF at = "done" THEN "done" ELSE "run") ELSE "run"
    /\ events' = Append(events, [ev |-> at, resolution |-> p])

ResolutionCall(p) ==
    /\ mode = "concurrent" /\ results[p].at = "call"
    /\ IF Trim(blocks[p].source) = <<>>
       THEN ResolutionAt(p, "done", Failure(EmptyDiagramSource)) /\ calls' = calls
       ELSE ResolutionAt(p, "post", Undefined) /\ calls' = calls + 1
    /\ UNCHANGED <<mode, original, content, blocks, idx, manifest, replaced, opts,
                   attempt, ret>>

ResolutionPosted(p) ==
    /\ mode = "concurrent" /\ results[p].at = "post"
    /\ \/ ResolutionAt(p, "upload", Undefined)
       \/ ResolutionAt(p, "done", Failure(ErrorMessage("neterr")))
    /\ UNCHANGED <<mode, original, content, blocks, idx, manifest, replaced, opts,
                   attempt, ret, calls>>

ResolutionUploaded(p) ==
    /\ mode = "concurrent" /\ results[p].at = "upload"
    /\ \/ LET id == UploadedId(DiagramPublicId(DiagramTypeOf(blocks[p].type),
                                               CleanedSource(blocks[p])), p)
          IN  /\ manifest' = StoredAfter(manifest, id, p)
              /\ ResolutionAt(p, "done", Success(<<"u">> \o id, id))
       \/ /\ manifest' = manifest
          /\ ResolutionAt(p, "done", Failure(ErrorMessage("upload")))
    /\ UNCHANGED <<mode, original, content, blocks, idx, replaced, opts,
                   attempt, ret, calls>>

ConcurrentResolutions ==
    \E p \in Resolutions :
        \/ ResolutionCall(p)
        \/ ResolutionPosted(p)
        \/ ResolutionUploaded(p)

(***************************************************************************)
(* The version of generateDiagram that hands out a URL of the rendering    *)
(* service for a short source, after a HEAD request on it.                 *)
(***************************************************************************)
\* what axios.head and axios.post of this version may end with; neither sets
\* validateStatus, so only a 2xx status is a response and not an error
UrlResponses ==
    [outcome : {"response"}, status : {200, 404, 500}, data : {<<"e">>},
     typeofData : {"string", "object"}]
        \cup [outcome : {"neterr", "timeout"}, status : {0}, data : {<<>>},
              typeofData : {"undefined"}]

\* generateDiagram up to its first await
UrlGenerateDiagramCall ==
    /\ mode = "urlGenerateDiagram" /\ pc = "call"
    /\ events' = <<>>
    /\ calls' = calls + 1
    /\ pc' = IF Len(blocks[idx].source) < UrlSourceLimit THEN "head" ELSE "upost"
    /\ NotReturned
    /\ UNCHANGED <<mode, original, blocks, opts, attempt>>

\* variant: the URL is returned whatever the HEAD request ends with
UrlHeadResponseUnchecked ==
    /\ pc = "head"
    /\ \E r \in UrlResponses :
          /\ events' = Append(events, Event("head", r, 0))
          /\ Return(Success(getDiagramUrl(blocks[idx].type, blocks[idx].source,
                                          blocks[idx].format), <<>>))
    /\ UNCHANGED <<mode, original, blocks, opts, attempt, calls>>

\* axios.head ends
UrlHeadResponse ==
    /\ pc = "head"
    /\ \E r \in UrlResponses :
          /\ events' = Append(events, Event("head", r, 0))
          /\ IF r.outcome = "response" /\ r.status < 300
             THEN Return(Success(getDiagramUrl(blocks[idx].type, blocks[idx].source,
                                               blocks[idx].format), <<>>))
             ELSE Return(Failure(ErrorMessage(r.outcome)))
    /\ UNCHANGED <<mode, original, blocks, opts, attempt, calls>>

\* axios.post ends
UrlPostResponse ==
    /\ pc = "upost"
    /\ \E r \in UrlResponses :
          /\ events' = Append(events, Event("post", r, 0))
          /\ IF r.outcome = "response" /\ r.status < 300
             THEN IF blocks[idx].format = <<"s", "v", "g">>
                  THEN IF r.typeofData = "string"
                       THEN Return(Success(SvgDataUrl(r.data), <<>>))
                       ELSE Return(Failure(ErrorMessage("type")))
                  ELSE Return(Success(getDiagramUrl(blocks[idx].type,
                                  blocks[idx].source, blocks[idx].format), <<>>))
             ELSE Return(Failure(ErrorMessage(r.outcome)))
    /\ UNCHANGED <<mode, original, blocks, opts, attempt, calls>>

(***************************************************************************)
(* generateWithFallback of config/gemini.js.  idx is the loop variable     *)
(* plus one, results holds lastError (empty for null), events the attempts *)
(* made so far.                                                            *)
(***************************************************************************)
MODEL_HIERARCHY ==
    <<"gemini-3-flash-preview", "gemini-2.5-flash", "gemini-2.5-flash-lite",
      "gemini-2.0-flash", "gemini-2.0-flash-lite">>

\* how an attempt ends: generateContent resolves and response.text() returns,
\* generateContent resolves and response.text() throws (an error that has no
\* status), or generateContent rejects, with a status or without one (0)
GeminiOutcomes ==
    [outcome : {"text", "blocked"}, status : {0}]
        \cup [outcome : {"rejected"}, status : {0, 400, 429, 500, 503}]

\* variant: every error falls back to the next model
FallbackOnAnyError(error) ==
    TRUE

\* error.status === 503 || error.status === 429
FallbackStatus(error) ==
    error.status = 503 \/ error.status = 429

\* the test of the loop with the loop variable at i - 1: the next model is
\* asked, or lastError is thrown after the loop
FallbackLoop(i, lastError) ==
    IF i <= Len(MODEL_HIERARCHY)
    THEN /\ pc' = "generate" /\ idx' = i /\ calls' = calls + 1
         /\ ret' = ret
    ELSE /\ pc' = "thrown" /\ idx' = idx /\ calls' = calls
         /\ ret' = [defined |-> TRUE, success |-> FALSE, thrown |-> lastError]

\* generateWithFallback up to the first await of generateContent
GenerateWithFallbackCall ==
    /\ mode = "generateWithFallback" /\ pc = "call"
    /\ FallbackLoop(1, <<>>)
    /\ UNCHANGED <<mode, original, content, blocks, results, manifest, replaced,
                   opts, attempt, events>>

\* the attempt with MODEL_HIERARCHY[idx] ends
GenerateContentResponse ==
    /\ mode = "generateWithFallback" /\ pc = "generate"
    /\ \E r \in GeminiOutcomes :
          LET modelId == MODEL_HIERARCHY[idx]
              error   == [model |-> modelId, status |-> r.status]
          IN  /\ events' = Append(events, [model |-> modelId, outcome |-> r.outcome,
                                           status |-> r.status])
              /\ IF r.outcome = "text"
                 THEN /\ pc' = "done"
                      /\ ret' = [defined |-> TRUE, success |-> TRUE, model |-> modelId]
                      /\ UNCHANGED <<results, idx, calls>>
                 ELSE /\ results' = <<error>>
                      /\ IF FallbackStatus(error)
                         THEN FallbackLoop(idx + 1, error)
                         ELSE /\ pc' = "thrown"
                              /\ ret' = [defined |-> TRUE, success |-> FALSE,
                                         thrown |-> error]
                              /\ UNCHANGED <<idx, calls>>
    /\ UNCHANGED <<mode, original, content, blocks, manifest, replaced, opts, attempt>>

(***************************************************************************)
(* The spaces router (the spaces part of routes/materials.js).  Each       *)
(* handler reads the space, checks, changes it and saves it; array fields  *)
(* are sequences, push is Append and filter is SelectSeq.                  *)
(***************************************************************************)
\* req.user._id of the authenticated requesters, and the userId of a body
Users ==
    {"u1", "u2", "u3"}

\* the join code of the space, and one that no space has
JoinCodes ==
    {"CODE", "WRONG"}

\* the request a handler serves
SpaceRequest(op, user, userId) ==
    [op |-> op, user |-> user, userId |-> userId]

\* res.status(status).json(...); the space collection after the handler
Respond(request, status, spaces) ==
    /\ events' = <<request>>
    /\ ret' = [defined |-> TRUE, success |-> (status = 200), status |-> status]
    /\ manifest' = spaces
    /\ UNCHANGED <<mode, pc, original, content, blocks, idx, results, replaced,
                   calls, opts, attempt>>

\* array.some(x => x.toString() === userId)
Some(array, userId) ==
    \E k \in 1..Len(array) : array[k] = userId

\* array.filter(x => x.toString() !== userId)
Filter(array, userId) ==
    SelectSeq(array, LAMBDA x : x # userId)

\* variant: every member passes for the owner
IsOwnerOrMember(space, user) ==
    Some(space.members, user)

\* space.owner.toString() === req.user._id.toString()
IsOwner(space, user) ==
    space.owner = user

\* POST /create: the array path editors, which the handler does not set, gets
\* the empty array
CreateSpace ==
    /\ mode = "spaces" /\ manifest = <<>>
    /\ \E user \in Users :
          Respond(SpaceRequest("create", user, "none"), 200,
                  << [name |-> "n1", description |-> "d1", joinCode |-> "CODE",
                      owner |-> user, members |-> <<user>>, admins |-> <<>>,
                      editors |-> <<>>] >>)

\* PUT /:spaceId; an absent description is the empty sequence
UpdateSpace ==
    /\ mode = "spaces"
    /\ \E user \in Users,
          body \in {[name |-> "", description |-> <<>>],
                    [name |-> "n2", description |-> <<"d2">>]} :
          LET request == SpaceRequest("update", user, "none")
          IN  IF manifest = <<>> THEN Respond(request, 404, manifest)
              ELSE IF ~IsOwner(manifest[1], user) THEN Respond(request, 403, manifest)
              ELSE Respond(request, 200,
                      << [manifest[1] EXCEPT
                            !.name = IF body.name # "" THEN body.name ELSE @,
                            !.description = IF body.description # <<>>
                                            THEN body.description[1] ELSE @] >>)

\* POST /join
JoinSpace ==
    /\ mode = "spaces"
    /\ \E user \in Users, joinCode \in JoinCodes :
          LET request == SpaceRequest("join", user, "none")
          IN  IF manifest = <<>> \/ manifest[1].joinCode # joinCode
              THEN Respond(request, 404, manifest)
              ELSE IF Some(manifest[1].members, user)
              THEN Respond(request, 400, manifest)
              ELSE Respond(request, 200,
                      << [manifest[1] EXCEPT !.members = Append(@, user)] >>)

\* POST /:spaceId/make-admin
MakeAdmin ==
    /\ mode = "spaces"
    /\ \E user \in Users, userId \in Users :
          LET request == SpaceRequest("make-admin", user, userId)
              space   == manifest[1]
          IN  IF manifest = <<>> THEN Respond(request, 404, manifest)
              ELSE IF ~IsOwner(space, user) /\ ~Some(space.admins, user)
              THEN Respond(request, 403, manifest)
              ELSE IF ~Some(space.members, userId) \/ Some(space.admins, userId)
              THEN Respond(request, 400, manifest)
              ELSE Respond(request, 200,
                      << [space EXCEPT !.admins = Append(@, userId)] >>)

\* POST /:spaceId/remove-admin
RemoveAdmin ==
    /\ mode = "spaces"
    /\ \E user \in Users, userId \in Users :
          LET request == SpaceRequest("remove-admin", user, userId)
              space   == manifest[1]
          IN  IF manifest = <<>> THEN Respond(request, 404, manifest)
              ELSE IF ~IsOwner(space, user) THEN Respond(request, 403, manifest)
              ELSE Respond(request, 200,
                      << [space EXCEPT !.admins = Filter(@, userId)] >>)

\* DELETE /:spaceId
DeleteSpace ==
    /\ mode = "spaces"
    /\ \E user \in Users :
          LET request == SpaceRequest("delete", user, "none")
          IN  IF manifest = <<>> THEN Respond(request, 404, manifest)
              ELSE IF ~IsOwner(manifest[1], user) THEN Respond(request, 403, manifest)
              ELSE Respond(request, 200, <<>>)

\* POST /:spaceId/leave
LeaveSpace ==
    /\ mode = "spaces"
    /\ \E user \in Users :
          LET request == SpaceRequest("leave", user, "none")
              space   == manifest[1]
          IN  IF manifest = <<>> THEN Respond(request, 404, manifest)
              ELSE IF IsOwner(space, user) THEN Respond(request, 400, manifest)
              ELSE Respond(request, 200,
                      << [space EXCEPT !.members = Filter(@, user),
                                       !.admins = Filter(@, user),
                                       !.editors = Filter(@, user)] >>)

\* POST /:spaceId/toggle-editor
ToggleEditor ==
    /\ mode = "spaces"
    /\ \E user \in Users, userId \in Users :
          LET request == SpaceRequest("toggle-editor", user, userId)
              space   == manifest[1]
          IN  IF manifest = <<>> THEN Respond(request, 404, manifest)
              ELSE IF ~IsOwner(space, user) THEN Respond(request, 403, manifest)
              ELSE IF userId = space.owner \/ ~Some(space.members, userId)
              THEN Respond(request, 400, manifest)
              ELSE Respond(request, 200,
                      << [space EXCEPT !.editors =
                            IF Some(@, userId) THEN Filter(@, userId)
                            ELSE Append(@, userId)] >>)

\* variant: a removed member keeps the roles it had
RemoveMemberKeepsRoles ==
    /\ mode = "spaces"
    /\ \E user \in Users, userId \in Users :
          LET request == SpaceRequest("remove-member", user, userId)
              space   == manifest[1]
          IN  IF manifest = <<>> THEN Respond(request, 404, manifest)
              ELSE IF ~IsOwner(space, user) THEN Respond(request, 403, manifest)
              ELSE IF userId = space.owner THEN Respond(request, 400, manifest)
              ELSE Respond(request, 200,
                      << [space EXCEPT !.members = Filter(@, userId)] >>)

\* POST /:spaceId/remove-member
RemoveMember ==
    /\ mode = "spaces"
    /\ \E user \in Users, userId \in Users :
          LET request == SpaceRequest("remove-member", user, userId)
              space   == manifest[1]
          IN  IF manifest = <<>> THEN Respond(request, 404, manifest)
              ELSE IF ~IsOwner(space, user) THEN Respond(request, 403, manifest)
              ELSE IF userId = space.owner THEN Respond(request, 400, manifest)
              ELSE Respond(request, 200,
                      << [space EXCEPT !.members = Filter(@, userId),
                                       !.admins = Filter(@, userId),
                                       !.editors = Filter(@, userId)] >>)

(***************************************************************************)
(* POST /create of the materials router and DELETE /:subjectId of the      *)
(* subjects router, each split at its awaits.                              *)
(***************************************************************************)
\* the decimal digits of a natural number, as template literals print it
DecimalDigits ==
    <<"0", "1", "2", "3", "4", "5", "6", "7", "8", "9">>

RECURSIVE DecimalChars(_)
DecimalChars(n) ==
    IF n < 10 THEN <<DecimalDigits[n + 1]>>
    ELSE DecimalChars(n \div 10) \o <<DecimalDigits[(n % 10) + 1]>>

\* `${operationName} timed out after ${timeoutMs/1000}s`
TimedOutError(operationName, timeoutMs) ==
    [name |-> "Error",
     message |-> operationName \o <<" ", "t", "i", "m", "e", "d", " ", "o", "u", "t", " ", "a", "f", "t", "e", "r", " ">>
                    \o DecimalChars(timeoutMs \div 1000) \o <<"s">>]

\* the errors generateWithFallback may throw: one whose message names the API,
\* one whose message does not
GenerationErrors ==
    {[name |-> "Error", message |-> <<"A", "P", "I", " ", "k", "e", "y", " ", "n", "o", "t", " ", "v", "a", "l", "i", "d">>],
     [name |-> "Error", message |-> <<"f", "e", "t", "c", "h", " ", "f", "a", "i", "l", "e", "d">>]}

\* variant of the catch block: the test for 'API' comes before the test for 'timed out'
ErrorResponseApiFirst(error) ==
    IF error.name = "ValidationError"
    THEN [status |-> 400, message |-> "Invalid data provided"]
    ELSE IF Includes(error.message, <<"A", "P", "I">>)
    THEN [status |-> 500,
          message |-> "AI processing service temporarily unavailable. Please try again later."]
    ELSE IF Includes(error.message, <<"t", "i", "m", "e", "d", " ", "o", "u", "t">>)
    THEN [status |-> 504,
          message |-> "Processing took too long. Try with a smaller file or fewer pages."]
    ELSE [status |-> 500, message |-> "Failed to process files"]

\* the catch block of POST /create: status code and message by the error
ErrorResponse(error) ==
    IF error.name = "ValidationError"
    THEN [status |-> 400, message |-> "Invalid data provided"]
    ELSE IF Includes(error.message, <<"t", "i", "m", "e", "d", " ", "o", "u", "t">>)
    THEN [status |-> 504,
          message |-> "Processing took too long. Try with a smaller file or fewer pages."]
    ELSE IF Includes(error.message, <<"A", "P", "I">>)
    THEN [status |-> 500,
          message |-> "AI processing service temporarily unavailable. Please try again later."]
    ELSE [status |-> 500, message |-> "Failed to process files"]

\* a request moves on to the position at
MovesTo(request, at) ==
    results' = [results EXCEPT ![request].at = at]

\* res.status(...).json(...) of a request
Responds(request, response) ==
    results' = [results EXCEPT ![request].at = "done",
                               ![request].status = response.status,
                               ![request].message = response.message,
                               ![request].ended = calls]

\* POST /create up to await withTimeout(generateWithFallback(contentParts), ...):
\* the subject is looked up, generateWithFallback is called and the timer is set
CreateMaterialStart ==
    /\ mode = "createMaterial" /\ results.create.at = "start"
    /\ IF "s1" \notin manifest.subjects
       THEN /\ Responds("create", [status |-> 404, message |-> "Subject not found"])
            /\ replaced' = replaced
       ELSE /\ results' = [results EXCEPT !.create.at = "generate",
                                          !.create.started = calls]
            /\ replaced' = [replaced EXCEPT !.timer = "pending",
                                            !.due = calls + GenerationTimeoutMs,
                                            !.generation = "running"]
    /\ UNCHANGED <<mode, pc, original, content, blocks, idx, manifest, calls, opts,
                   attempt, events, ret>>

\* the promise of generateWithFallback settles; Promise.race has settled with it
\* when the timer has not fired before
GenerationSettles ==
    /\ mode = "createMaterial" /\ replaced.generation = "running"
    /\ replaced' = [replaced EXCEPT !.generation = "settled", !.settledAt = calls]
    /\ \E outcome \in {"text", "refuse", "error"} :
          IF results.create.at # "generate"
          THEN results' = results
          ELSE CASE outcome = "text" -> MovesTo("create", "resolve")
                 [] outcome = "refuse" ->
                        Responds("create", [status |-> 400, message |-> "REFUSE"])
                 [] OTHER -> \E error \in GenerationErrors :
                                Responds("create", ErrorResponse(error))
    /\ UNCHANGED <<mode, pc, original, content, blocks, idx, manifest, calls, opts,
                   attempt, events, ret>>

\* the callback of setTimeout rejects; the handler is in its catch block when
\* Promise.race had not settled before
TimerFires ==
    /\ mode = "createMaterial" /\ replaced.timer = "pending" /\ calls >= replaced.due
    /\ replaced' = [replaced EXCEPT !.timer = "fired"]
    /\ IF results.create.at = "generate"
       THEN Responds("create",
                ErrorResponse(TimedOutError(<<"G", "e", "m", "i", "n", "i", " ", "A", "P", "I", " ", "g", "e", "n", "e", "r", "a", "t", "i", "o", "n">>,
                                            GenerationTimeoutMs)))
       ELSE results' = results
    /\ UNCHANGED <<mode, pc, original, content, blocks, idx, manifest, calls, opts,
                   attempt, events, ret>>

\* half of the timeout passes while something is awaited; a timer that is due
\* fires first
Tick ==
    /\ mode = "createMaterial"
    /\ calls < MaxTicks * (GenerationTimeoutMs \div 2)
    /\ ~(replaced.timer = "pending" /\ calls >= replaced.due)
    /\ \/ results.create.at \in {"generate", "resolve", "save"}
       \/ replaced.generation = "running"
    /\ calls' = calls + GenerationTimeoutMs \div 2
    /\ UNCHANGED <<mode, pc, original, content, blocks, idx, results, manifest,
                   replaced, opts, attempt, events, ret>>

\* await processDiagramBlocks(content), the image searches and
\* replaceImagePlaceholders have ended
ResolutionDone ==
    /\ mode = "createMaterial" /\ results.create.at = "resolve"
    /\ MovesTo("create", "save")
    /\ UNCHANGED <<mode, pc, original, content, blocks, idx, manifest, replaced,
                   calls, opts, attempt, events, ret>>

\* await material.save(), then res.json
MaterialSave ==
    /\ mode = "createMaterial" /\ results.create.at = "save"
    /\ manifest' = [manifest EXCEPT
                      !.materials = @ \cup {[id |-> "m1", subjectId |-> "s1"]}]
    /\ Responds("create", [status |-> 200, message |-> "success"])
    /\ UNCHANGED <<mode, pc, original, content, blocks, idx, replaced, calls, opts,
                   attempt, events, ret>>

\* DELETE /:subjectId up to await Material.deleteMany: the subject and its space
\* are looked up, the requester may edit
DeleteFindSubject ==
    /\ mode = "createMaterial" /\ results.delete.at = "start"
    /\ IF "s1" \notin manifest.subjects
       THEN Responds("delete", [status |-> 404, message |-> "Subject not found"])
       ELSE MovesTo("delete", "deleteMany")
    /\ UNCHANGED <<mode, pc, original, content, blocks, idx, manifest, replaced,
                   calls, opts, attempt, events, ret>>

\* await Material.deleteMany({ subjectId: subjectId })
DeleteMaterials ==
    /\ mode = "createMaterial" /\ results.delete.at = "deleteMany"
    /\ manifest' = [manifest EXCEPT
                      !.materials = {m \in @ : m.subjectId # "s1"}]
    /\ MovesTo("delete", "deleteSubject")
    /\ UNCHANGED <<mode, pc, original, content, blocks, idx, replaced, calls, opts,
                   attempt, events, ret>>

\* await Subject.findByIdAndDelete(subjectId), then res.json
DeleteSubject ==
    /\ mode = "createMaterial" /\ results.delete.at = "deleteSubject"
    /\ manifest' = [manifest EXCEPT !.subjects = @ \ {"s1"}]
    /\ Responds("delete", [status |-> 200,
                           message |-> "Subject and its materials deleted successfully"])
    /\ UNCHANGED <<mode, pc, original, content, blocks, idx, replaced, calls, opts,
                   attempt, events, ret>>

Next ==
    \/ ProcessDiagramBlocksEntry
    \/ GenerateDiagramCall
    \/ KrokiPostResponse
    \/ DiagramUploadResponse
    \/ ImagePassEntry
    \/ SearchResponse
    \/ ProcessImageGenerationEntry
    \/ GenerateImageCall
    \/ PollinationsResponse
    \/ GeneratedUploadResponse
    \/ SleepElapsed
    \/ KrokiJsGenerateDiagramCall
    \/ KrokiJsPostResponse
    \/ ExtractDirectives
    \/ SanitizeMermaidSourceCall
    \/ KrokiJsSanitizeCall
    \/ EncodeDiagramSourceCall
    \/ ConcurrentResolutions
    \/ UrlGenerateDiagramCall
    \/ UrlHeadResponse
    \/ UrlPostResponse
    \/ GenerateWithFallbackCall
    \/ GenerateContentResponse
    \/ CreateSpace
    \/ UpdateSpace
    \/ JoinSpace
    \/ MakeAdmin
    \/ RemoveAdmin
    \/ DeleteSpace
    \/ LeaveSpace
    \/ ToggleEditor
    \/ RemoveMember
    \/ CreateMaterialStart
    \/ GenerationSettles
    \/ TimerFires
    \/ Tick
    \/ ResolutionDone
    \/ MaterialSave
    \/ DeleteFindSubject
    \/ DeleteMaterials
    \/ DeleteSubject

Spec ==
    Init /\ [][Next]_vars

(***************************************************************************)
(* Properties of the rewrite passes.                                       *)
(***************************************************************************)
PassModes ==
    {"diagrams", "search", "generation"}

\* the pass has returned its content and manifest
PassReturned ==
    mode \in PassModes /\ pc = "done"

\* the directives of the document have pairwise distinct raw text
DistinctRawSpans ==
    \A i, j \in 1..Len(blocks) : i # j => blocks[i].fullMatch # blocks[j].fullMatch

\* ![alt](url)
MarkdownImage(alt, url) ==
    <<"!", "[">> \o alt \o <<"]", "(">> \o url \o <<")">>

\* alt text of the image of directive k: its description, or "<engine> diagram"
AltText(k) ==
    IF mode = "diagrams"
    THEN blocks[k].type \o <<" ", "d", "i", "a", "g", "r", "a", "m">>
    ELSE blocks[k].description

\* the text owed in place of directive k: its image when resolved; when failed,
\* what the pass puts for a failure (nothing new in the search pass)
OwnReplacement(k) ==
    CASE mode = "diagrams" ->
            IF results[k].success
            THEN MarkdownImage(AltText(k), results[k].url)
            ELSE DiagramFailureNote(blocks[k], results[k])
      [] mode = "search" ->
            IF results[k].success
            THEN <<"\n", "\n">> \o MarkdownImage(AltText(k), results[k].url)
                     \o <<"\n", "\n">>
            ELSE blocks[k].fullMatch
      [] OTHER ->
            IF results[k].success
            THEN MarkdownImage(AltText(k), results[k].url)
            ELSE GenerationPendingNote(blocks[k])

\* the original text from offset p on, every directive span replaced by the
\* directive's own replacement, every other character kept
RECURSIVE SplicedFrom(_)
SplicedFrom(p) ==
    IF p >= Len(original) THEN <<>>
    ELSE IF \E k \in 1..Len(blocks) : blocks[k].position = p
    THEN LET k == CHOOSE n \in 1..Len(blocks) : blocks[n].position = p
         IN  OwnReplacement(k) \o SplicedFrom(p + Len(blocks[k].fullMatch))
    ELSE <<original[p + 1]>> \o SplicedFrom(p + 1)

\* C1: position-stable rewrite.  When the directives of a document have pairwise
\* distinct raw text, the text a pass returns is the original text with every
\* directive span replaced by that directive's own replacement and every
\* character outside the spans unchanged and in order.
C1_PositionStableRewrite ==
    (PassReturned /\ DistinctRawSpans /\ Len(results) = Len(blocks))
        => content = SplicedFrom(0)

StrictlyDescending(s) ==
    \A i \in 1..(Len(s) - 1) : s[i] > s[i + 1]

StrictlyAscending(s) ==
    \A i \in 1..(Len(s) - 1) : s[i] < s[i + 1]

C3_FailureKeepsDirectiveText ==
    (PassReturned /\ mode = "generation" /\ Len(results) = Len(blocks))
        => \A k \in 1..Len(blocks) :
              ~results[k].success => Includes(content, blocks[k].fullMatch)

\* the rendering service rejected the diagram of directive k with a 4xx status
RejectedAsSyntaxError(k) ==
    /\ ~results[k].success
    /\ StartsWithAt(results[k].error, 1, SyntaxErrorPrefix)

\* C4: a pass never throws because of one directive, it handles every directive
\* and returns; and for a diagram rejected with a 4xx status the returned
\* content holds the original code block followed by an error annotation.
C4_DirectiveFailureIsContained ==
    /\ mode \in PassModes => pc # "thrown"
    /\ PassReturned => Len(results) = Len(blocks)
    /\ (PassReturned /\ mode = "diagrams")
          => \A k \in 1..Len(results) :
                RejectedAsSyntaxError(k)
                    => Includes(content, blocks[k].fullMatch \o <<"\n", "\n", "*">>)

\* C5: every resolved directive, whatever the whitespace after the colon of its
\* tag, is in the returned content as its Markdown image, and its raw text is
\* no longer there (the raw texts of the document being pairwise distinct).
C5_ResolvedDirectiveBecomesImage ==
    (PassReturned /\ DistinctRawSpans /\ Len(results) = Len(blocks))
        => \A k \in 1..Len(blocks) :
              results[k].success
                  => /\ Includes(content, MarkdownImage(AltText(k), results[k].url))
                     /\ ~Includes(content, blocks[k].fullMatch)

(***************************************************************************)
(* The grammars of the directives, stated on the text alone.               *)
(***************************************************************************)
\* from index j on: one character or more, none of them "}", then "}}"
HasDescriptionFrom(text, j) ==
    \E e \in (j + 1)..Len(text) :
        /\ StartsWithAt(text, e, CloseBraces)
        /\ \A m \in j..(e - 1) : text[m] # "}"

HasImageDirective(text) ==
    \E i \in 1..Len(text) :
        /\ StartsWithAt(text, i, ImageTag)
        /\ HasDescriptionFrom(text, i + Len(ImageTag))

HasGenerationDirective(text) ==
    \E i \in 1..Len(text), t \in DOMAIN GenerationTags :
        /\ StartsWithAt(text, i, OpenBraces)
        /\ StartsWithAtIgnoreCase(text, i + 2, GenerationTags[t] \o <<":">>)
        /\ HasDescriptionFrom(text, i + 2 + Len(GenerationTags[t]) + 1)

HasFencedDiagram(text) ==
    \E i \in 1..Len(text), t \in DOMAIN FencedEngines :
        /\ StartsWithAt(text, i, Fence)
        /\ StartsWithAtIgnoreCase(text, i + 3, FencedEngines[t] \o <<"\n">>)
        /\ \E c \in (i + 3 + Len(FencedEngines[t]) + 1)..Len(text) :
              StartsWithAt(text, c, Fence)

HasInlineDiagram(text) ==
    \E i \in 1..Len(text), n \in 1..Len(text) :
        /\ StartsWithAtIgnoreCase(text, i, InlineDiagramTag)
        /\ i + Len(InlineDiagramTag) + n <= Len(text)
        /\ \A m \in 0..(n - 1) : IsWordChar(text[i + Len(InlineDiagramTag) + m])
        /\ text[i + Len(InlineDiagramTag) + n] = "\n"
        /\ \E c \in (i + Len(InlineDiagramTag) + n + 1)..Len(text) :
              StartsWithAt(text, c, CloseBraces)

NoDirective(text) ==
    /\ ~HasImageDirective(text)
    /\ ~HasGenerationDirective(text)
    /\ ~HasFencedDiagram(text)
    /\ ~HasInlineDiagram(text)

\* C6: round-trip identity.  On a text with no directive of any grammar a pass
\* calls no external service, and it returns the text unchanged with an empty
\* manifest.
C6_NoDirectiveRoundTrip ==
    (mode \in PassModes /\ NoDirective(original))
        => /\ pc \in {"entry", "done"}
           /\ content = original
           /\ manifest = <<>>
           /\ calls = 0

\* a pass has returned on a text that holds an opening "{{" or a fence, yet no
\* directive
C6_Witness ==
    /\ PassReturned
    /\ NoDirective(original)
    /\ Includes(original, OpenBraces) \/ Includes(original, Fence)
    /\ content = original /\ calls = 0

(***************************************************************************)
(* Properties of generateImage and generateDiagram.                        *)
(***************************************************************************)
\* the call of generateImage(prompt, options) has returned
GenerateImageReturned ==
    mode = "generateImage" /\ pc = "done"

\* the requests sent to the generation service during the call, in order
Gets ==
    SelectSeq(events, LAMBDA e : e.ev = "get")

Sleeps ==
    SelectSeq(events, LAMBDA e : e.ev = "sleep")

Answered502(e) ==
    e.outcome = "response" /\ e.status = 502

Answered200(e) ==
    e.outcome = "response" /\ e.status = 200

UploadFailed ==
    \E i \in 1..Len(events) : events[i].ev = "upload" /\ events[i].outcome = "error"

\* the service answered 502 on the first k attempts and the attempt after them
\* succeeded, download and upload
SucceededAfter(k) ==
    /\ Len(Gets) = k + 1
    /\ \A i \in 1..k : Answered502(Gets[i])
    /\ Answered200(Gets[k + 1])
    /\ ~UploadFailed

\* C7: retry, success case.  If the service answers 502 on the first k attempts,
\* k < maxRetries, and attempt k + 1 succeeds, generateImage returns success with
\* a URL, and it has slept retryDelay exactly once before each retry: every 502
\* is followed by one sleep of retryDelay and then by the next request.
C7_RetryThenSuccess ==
    \A k \in 0..MaxRetriesOpt :
        (GenerateImageReturned /\ k < opts.maxRetries /\ SucceededAfter(k))
            => /\ ret.defined /\ ret.success /\ ret.url \in Urls
               /\ Len(Sleeps) = k
               /\ \A i \in 1..k :
                     /\ events[2 * i - 1].ev = "get"
                     /\ events[2 * i].ev = "sleep"
                     /\ events[2 * i].ms = opts.retryDelay
               /\ events[2 * k + 1].ev = "get"

\* two 502 answers, then success on the third attempt of three, the default delay
C7_Witness ==
    /\ GenerateImageReturned
    /\ opts.maxRetries = DefaultMaxRetries /\ opts.retryDelay = DefaultRetryDelay
    /\ SucceededAfter(2)
    /\ ret.success

\* C8: retry, exhaustion case.  No call sends more than maxRetries requests; and
\* if the service answers 502 on every attempt (there being one at least),
\* generateImage sends exactly maxRetries requests, returns a failure after the
\* last one, and does not sleep after it.
C8_RetryExhausted ==
    /\ mode = "generateImage" => Len(Gets) <= opts.maxRetries
    /\ (GenerateImageReturned /\ Len(Gets) >= 1
            /\ \A i \in 1..Len(Gets) : Answered502(Gets[i]))
          => /\ Len(Gets) = opts.maxRetries
             /\ ret.defined /\ ~ret.success
             /\ Len(Sleeps) = opts.maxRetries - 1
             /\ events[Len(events)].ev = "get"

\* three 502 answers with maxRetries at its default
C8_Witness ==
    /\ GenerateImageReturned
    /\ opts.maxRetries = DefaultMaxRetries
    /\ Len(Gets) = DefaultMaxRetries
    /\ \A i \in 1..Len(Gets) : Answered502(Gets[i])
    /\ ~ret.success

\* an attempt ended in an error that is not an HTTP 502
NonRetryable(e) ==
    \/ e.ev = "get" /\ ~Answered502(e) /\ ~Answered200(e)
    \/ e.ev = "upload" /\ e.outcome = "error"

\* C9: retry, non-retryable case.  An attempt that fails with anything but an
\* HTTP 502 (another status, a network error, a timeout, an upload error after
\* the download) ends generateImage at once with a failure: nothing follows it,
\* no sleep and no further request.
C9_NonRetryableEndsCall ==
    mode \in {"generateImage", "generation"}
        => \A i \in 1..Len(events) :
              NonRetryable(events[i])
                  => /\ i = Len(events)
                     /\ pc \notin {"get", "gupload", "sleep"}
                     /\ ret.defined /\ ~ret.success

\* an upload error on the first attempt, with attempts left
C9_Witness ==
    /\ GenerateImageReturned
    /\ opts.maxRetries > 1
    /\ Len(Gets) = 1
    /\ UploadFailed
    /\ ~ret.success

\* the rendering service answered the POST of the call with a 4xx status
Answered4xx ==
    /\ mode \in {"generateDiagram", "diagrams", "krokiGenerateDiagram"}
    /\ Len(events) >= 1
    /\ events[1].ev = "post" /\ events[1].outcome = "response"
    /\ events[1].status >= 400 /\ events[1].status <= 499

\* the call made that one request and nothing else, and has returned a failure
OneRequestThenFailure ==
    /\ Len(events) = 1
    /\ pc \notin {"post", "upload", "kpost"}
    /\ mode # "diagrams" => calls = 1
    /\ ret.defined /\ ~ret.success

\* the first n characters of the message the server sent, the whole one if shorter
Truncated(message, n) ==
    SubSeq(message, 1, SetMin({Len(message), n}))

\* C10 as claimed: a 4xx answer to the diagram POST makes generateDiagram return
\* the failure "Diagram syntax error: " followed by the server message cut to
\* some length, after that one request only: no retry, no upload.
C10_SyntaxErrorOn4xx ==
    Answered4xx
        => /\ OneRequestThenFailure
           /\ \E n \in 0..Len(events[1].data) :
                 ret.error = SyntaxErrorPrefix \o Truncated(events[1].data, n)

\* C10, amended: after a 4xx answer generateDiagram returns a failure, having
\* made that one request and no upload.  Its error is "Diagram syntax error: "
\* followed by the first 300 characters of the body (the version that uploads
\* to Cloudinary), or in utils/kroki.js by the first 200 characters of the body
\* when axios delivers it as a string and by "Invalid diagram syntax" when not.
C10_SyntaxErrorOn4xxByVersion ==
    Answered4xx
        => /\ OneRequestThenFailure
           /\ ret.error = SyntaxErrorPrefix \o
                 (CASE mode # "krokiGenerateDiagram" ->
                          Truncated(events[1].data, SyntaxErrorLimit)
                    [] mode = "krokiGenerateDiagram"
                          /\ events[1].typeofData = "string" ->
                          Truncated(events[1].data, CatchErrorLimit)
                    [] OTHER -> InvalidDiagramSyntax)

\* utils/kroki.js: a 400 whose body axios delivered as an object
C10_Witness ==
    /\ mode = "krokiGenerateDiagram" /\ pc = "done"
    /\ Answered4xx
    /\ events[1].typeofData = "object"
    /\ ret.error = SyntaxErrorPrefix \o InvalidDiagramSyntax

(***************************************************************************)
(* The manifest.                                                           *)
(***************************************************************************)
\* the directives handled so far whose resolution succeeded
Resolved ==
    {k \in 1..Len(results) : results[k].success}

\* the entries of the manifest that carry the URL directive k was resolved to
EntriesOf(k) ==
    {m \in 1..Len(manifest) : manifest[m].url = results[k].url}

\* C11: the manifest of a pass holds exactly one entry per directive whose
\* resolution succeeded and none for a directive whose resolution failed: it has
\* as many entries as there are resolved directives, every resolved directive
\* has one entry, and every entry is the entry of a resolved directive.
C11_ManifestOfSuccesses ==
    mode \in PassModes
        => /\ Len(manifest) = Cardinality(Resolved)
           /\ \A k \in Resolved : Cardinality(EntriesOf(k)) = 1
           /\ \A m \in 1..Len(manifest) : \E k \in Resolved : m \in EntriesOf(k)

\* a pass has returned with one directive resolved and one failed
C11_Witness ==
    /\ PassReturned
    /\ Len(results) = 2
    /\ Cardinality(Resolved) = 1
    /\ Len(manifest) = 1

(***************************************************************************)
(* Properties of the extractors.                                           *)
(***************************************************************************)
ExtractorsReturned ==
    mode = "extract" /\ pc = "done"

\* the well-formed directives of a kind the structured document holds
DirectivesOf(kind) ==
    {k \in 1..Len(blocks) : blocks[k].kind = kind}

\* zero-based offset of segment k in the text
OffsetOf(k) ==
    Len(TextOf(SubSeq(blocks, 1, k - 1)))

\* the records of a list, as a set
RecordsOf(list) ==
    {list[k] : k \in 1..Len(list)}

\* C12: extraction completeness.  On a text made of literal text and N
\* well-formed directives that do not overlap (one may start at offset 0 or end
\* with the text), the extractors together return exactly N matches, and each
\* has the kind, the trimmed payload, the exact raw span and the zero-based
\* offset of its directive.
C12_ExtractionComplete ==
    ExtractorsReturned
        => /\ Len(ret.images) + Len(ret.requests) + Len(ret.diagrams)
                 = Cardinality({k \in 1..Len(blocks) : blocks[k].kind # "literal"})
           /\ RecordsOf(ret.images)
                 = {[fullMatch |-> blocks[k].text, description |-> blocks[k].payload,
                     position |-> OffsetOf(k)] : k \in DirectivesOf("image")}
           /\ RecordsOf(ret.requests)
                 = {[fullMatch |-> blocks[k].text, type |-> blocks[k].type,
                     description |-> blocks[k].payload,
                     position |-> OffsetOf(k)] : k \in DirectivesOf("generation")}
           /\ RecordsOf(ret.diagrams)
                 = {[fullMatch |-> blocks[k].text, type |-> blocks[k].type,
                     source |-> blocks[k].payload,
                     position |-> OffsetOf(k)] : k \in DirectivesOf("diagram")}

\* the spans the three extractors returned: extractor, index in its list, zero-based
\* offset of the first character and of the character after the last
ReturnedSpans ==
    LET SpansOf(name, list) ==
            {[extractor |-> name, index |-> k, from |-> list[k].position,
              to |-> list[k].position + Len(list[k].fullMatch)] : k \in 1..Len(list)}
    IN  SpansOf("image", ret.images) \cup SpansOf("generation", ret.requests)
            \cup SpansOf("diagram", ret.diagrams)

\* C13: no span of the text is returned by more than one extractor, and the
\* matches returned for one document never overlap; so an inline diagram block
\* is returned by the diagram extractor only.
C13_NoSpanReturnedTwice ==
    ExtractorsReturned
        => \A a, b \in ReturnedSpans :
              a # b => (a.to <= b.from \/ b.to <= a.from)

(***************************************************************************)
(* The Mermaid sanitizer applied twice.                                    *)
(***************************************************************************)
SanitizeModes ==
    {"sanitizeMermaidSource", "krokiSanitize"}

SanitizedTwice ==
    mode \in SanitizeModes /\ pc = "done"

\* C14: sanitizing a Mermaid source is idempotent: applied to its own output,
\* the sanitizer returns that output unchanged, in both versions of the code.
C14_SanitizeIdempotent ==
    SanitizedTwice => ret.output = ret.input

(***************************************************************************)
(* The semicolon rule, as the specification words it.                      *)
(***************************************************************************)
ConnectorTokens ==
    { <<"-", "-", ">">>,
      <<"-", "-", "-">>,
      <<"-", "-", "|">>,
      <<"-", ".", "-", ">">>,
      <<"|", ">">>,
      <<"<", "|">> }

DeclarationKeywords ==
    { <<"g", "r", "a", "p", "h">>,
      <<"f", "l", "o", "w", "c", "h", "a", "r", "t">>,
      <<"s", "e", "q", "u", "e", "n", "c", "e", "D", "i", "a", "g", "r", "a", "m">>,
      <<"c", "l", "a", "s", "s", "D", "i", "a", "g", "r", "a", "m">>,
      <<"s", "t", "a", "t", "e", "D", "i", "a", "g", "r", "a", "m">>,
      <<"e", "r", "D", "i", "a", "g", "r", "a", "m">>,
      <<"g", "a", "n", "t", "t">>,
      <<"p", "i", "e">>,
      <<"s", "u", "b", "g", "r", "a", "p", "h">> }

ContainsConnectorToken(line) ==
    \E t \in ConnectorTokens : Includes(line, t)

ExemptLine(line) ==
    LET trimmed == Trim(line)
    IN  \/ \E w \in DeclarationKeywords : StartsWithAt(trimmed, 1, w)
        \/ trimmed = <<"e", "n", "d">>
        \/ \E c \in {";", "{", ":"} : EndsWith(trimmed, <<c>>)

SanitizedOnce ==
    mode \in SanitizeModes /\ pc = "once"

\* the lines the semicolon rule is applied to: the source after the quote and
\* line-break steps of the version at work
LinesBeforeSemicolons ==
    LET quoted == StripQuotes(Trim(ret.input))
    IN  SplitLines(IF mode = "krokiSanitize"
                   THEN KrokiJsInsertNodeBreaks(quoted, 1)
                   ELSE InsertNodeBreaks(quoted, 1))

SemicolonRuleOn(before, after) ==
    IF ContainsConnectorToken(before) /\ ~ExemptLine(before)
    THEN after = before \o <<";">>
    ELSE after = before

\* C15: after sanitization every line with a connector token ends with a
\* semicolon, unless it is a declaration keyword line, the literal end, or
\* already ends with ; { or :, and every exempt line and every line without a
\* connector is returned unaltered.
C15_SemicolonRule ==
    SanitizedOnce =>
        LET before == LinesBeforeSemicolons
            after  == SplitLines(ret.output)
        IN  /\ Len(after) = Len(before)
            /\ \A k \in 1..Len(before) : SemicolonRuleOn(before[k], after[k])

(***************************************************************************)
(* The line-break rule, as the specification words it: a site is a closer  *)
(* followed by a run of at least two gap characters, then an identifier    *)
(* and an opener.                                                          *)
(***************************************************************************)
\* the length of the run of gap characters of s from index j
GapRun(s, j, gap) ==
    SetMax({n \in 0..(Len(s) - j + 1) : \A m \in j..(j + n - 1) : s[m] \in gap})

IsBreakSite(s, i, closers, gap) ==
    /\ s[i] \in closers
    /\ LET n  == GapRun(s, i + 1, gap)
           id == i + 1 + n
       IN  /\ n >= 2
           /\ id <= Len(s)
           /\ IsIdentStart(s[id])
           /\ \E open \in (id + 1)..Len(s) :
                 /\ \A m \in id..(open - 1) : IsWordChar(s[m])
                 /\ s[open] \in {"[", "{", "("}

\* s with the gap of every site replaced by a newline and four spaces
BrokenAtSites(s, closers, gap) ==
    LET Sites == {i \in 1..Len(s) : IsBreakSite(s, i, closers, gap)}
        InGap(j) == \E i \in Sites : j > i /\ j <= i + GapRun(s, i + 1, gap)
        Piece(j) == IF InGap(j) THEN <<>>
                    ELSE IF j \in Sites THEN <<s[j], "\n", " ", " ", " ", " ">>
                    ELSE <<s[j]>>
    IN  Flatten([j \in 1..Len(s) |-> Piece(j)])

WhiteSpaceChars ==
    {" ", "\n", "\t", "\r"}

\* the text of the version at work after its line-break step
TextAfterBreaks ==
    LET quoted == StripQuotes(Trim(ret.input))
    IN  IF mode = "krokiSanitize" THEN KrokiJsInsertNodeBreaks(quoted, 1)
        ELSE InsertNodeBreaks(quoted, 1)

\* the example of the specification and what it is sanitized to
C16_Source ==
    <<"A", "[", "L", "]", " ", "-", "-", "-", " ", "B", "[", "L", "]">>
    \o <<" ", " ", " ", " ", "C", "[", "L", "]", " ", "-", "-", "-", " ", "D">>

C16_Example ==
    <<"A", "[", "L", "]", " ", "-", "-", "-", " ", "B", "[", "L", "]", ";", "\n",
      " ", " ", " ", " ", "C", "[", "L", "]", " ", "-", "-", "-", " ", "D", ";">>

Malformed ==
    <<-1>>

Base64UrlAlphabet ==
    UrlSafeChars(Base64Alphabet)

Base64UrlDecode(s) ==
    IF (\E k \in 1..Len(s) : \A i \in 1..64 : Base64UrlAlphabet[i] # s[k])
          \/ Len(s) % 4 = 1
    THEN Malformed
    ELSE LET Index(c) == (CHOOSE i \in 1..64 : Base64UrlAlphabet[i] = c) - 1
             bits == Flatten([k \in 1..Len(s) |-> BitsMsb(Index(s[k]), 6)])
         IN  [k \in 1..(Len(bits) \div 8) |-> ValueMsb(SubSeq(bits, 8 * k - 7, 8 * k))]

\* the literals of a fixed-Huffman block read from bit i, -1 where the bits are
\* not such a block
RECURSIVE InflateLiterals(_, _)
InflateLiterals(bits, i) ==
    IF i + 6 > Len(bits) THEN Malformed
    ELSE IF \A j \in i..(i + 6) : bits[j] = 0 THEN <<>>
    ELSE IF i + 7 > Len(bits) THEN Malformed
    ELSE LET code == ValueMsb(SubSeq(bits, i, i + 7))
         IN  IF code \in 48..191
             THEN <<code - 48>> \o InflateLiterals(bits, i + 8)
             ELSE Malformed

Inflate(bytes) ==
    IF bytes = Malformed \/ Len(bytes) < 6 \/ SubSeq(bytes, 1, 2) # <<120, 156>>
    THEN Malformed
    ELSE LET body == SubSeq(bytes, 3, Len(bytes) - 4)
             bits == Flatten([k \in 1..Len(body) |->
                         [j \in 1..8 |-> (body[k] \div (2 ^ (j - 1))) % 2]])
         IN  IF Len(bits) < 3 \/ SubSeq(bits, 1, 3) # <<1, 1, 0>> THEN Malformed
             ELSE LET data == InflateLiterals(bits, 4)
                  IN  IF (\E k \in 1..Len(data) : data[k] < 0)
                            \/ Adler32Bytes(data)
                                 # SubSeq(bytes, Len(bytes) - 3, Len(bytes))
                      THEN Malformed
                      ELSE data

Encoded ==
    mode = "encode" /\ pc = "done"

GenerateDiagramModes ==
    {"generateDiagram", "krokiGenerateDiagram"}

\* the segment of the posted URL between the base and the format
PostedEngine(e) ==
    LET rest == SubSeq(e.request.url, 3, Len(e.request.url))
        fmt  == IF mode = "krokiGenerateDiagram" THEN blocks[1].format
                ELSE <<"p", "n", "g">>
    IN  SubSeq(rest, 1, Len(rest) - Len(fmt) - 1)

\* the catalog entry whose key is the name up to the case of its letters
CatalogEntries(type) ==
    {DIAGRAM_TYPES(key) : key \in {k \in DiagramTypeKeys : k = ToLowerCase(type)}}

\* C18: the engine name is looked up in the catalog without regard to case (dot,
\* DOT and Dot all give graphviz), and a name the catalog does not have is
\* passed to the rendering service unchanged.
C18_EngineNameResolved ==
    mode \in GenerateDiagramModes =>
        \A k \in 1..Len(events) :
            events[k].ev = "post" =>
                IF CatalogEntries(blocks[1].type) # {}
                THEN PostedEngine(events[k]) \in CatalogEntries(blocks[1].type)
                ELSE PostedEngine(events[k]) = blocks[1].type

(***************************************************************************)
(* Two resolutions of one diagram.                                         *)
(***************************************************************************)
Stored(p) ==
    mode = "concurrent" /\ results[p].at = "done" /\ results[p].ret.success

SameDiagram(p, q) ==
    /\ DiagramTypeOf(blocks[p].type) = DiagramTypeOf(blocks[q].type)
    /\ CleanedSource(blocks[p]) = CleanedSource(blocks[q])

ObjectsNamed(id) ==
    {m \in 1..Len(manifest) : manifest[m].publicId = id}

\* C19: the identifier a rendered diagram is stored under depends on the engine
\* name and the sanitized source only: two resolutions of the same engine and
\* source, in whatever order their steps come, use one identifier and leave
\* exactly one stored object.
C19_OneStoredObject ==
    mode = "concurrent" =>
        /\ \A p \in Resolutions :
              Stored(p) => Cardinality(ObjectsNamed(results[p].ret.publicId)) = 1
        /\ \A p, q \in Resolutions :
              Stored(p) /\ Stored(q) =>
                  (SameDiagram(p, q)
                      => results[p].ret.publicId = results[q].ret.publicId)
        /\ Len(manifest) = Cardinality({results[p].ret.publicId :
                                            p \in {q \in Resolutions : Stored(q)}})

\* both uploads under way at once, of one diagram written in two ways
C19_Witness ==
    /\ Stored(1) /\ Stored(2)
    /\ blocks[1] # blocks[2] /\ SameDiagram(1, 2)
    /\ Len(manifest) = 1
    /\ \E i, j \in 1..Len(events) :
          /\ i < j /\ j < Len(events) - 1
          /\ events[i] = [ev |-> "upload", resolution |-> 1]
          /\ events[j] = [ev |-> "upload", resolution |-> 2]

(***************************************************************************)
(* The GET URL of a short source and the check made on it.                 *)
(***************************************************************************)
UrlCallReturned ==
    mode = "urlGenerateDiagram" /\ pc = "done"

EventsOf(ev) ==
    {k \in 1..Len(events) : events[k].ev = ev}

CheckSucceeded ==
    \E k \in EventsOf("head") :
        events[k].outcome = "response" /\ events[k].status \in 200..299

\* `<base>/<engine>/<format>/<deflate and base64url of the source>`
GetUrlOf(block) ==
    <<"K", "/">> \o DiagramTypeOf(block.type) \o <<"/">> \o block.format \o <<"/">>
        \o encodeDiagramSource(block.source)

\* C20: for a source shorter than 2000 characters no POST is made; the GET URL is
\* checked with one request and returned only after the check succeeded, and a
\* check that fails or times out gives a failure.  A source of 2000 characters
\* or more is resolved by a POST.
C20_ShortSourceByCheckedUrl ==
    mode = "urlGenerateDiagram" =>
        IF Len(blocks[1].source) < UrlSourceLimit
        THEN /\ EventsOf("post") = {}
             /\ ret.defined /\ ret.success => CheckSucceeded /\ ret.url = GetUrlOf(blocks[1])
             /\ UrlCallReturned =>
                   /\ Cardinality(EventsOf("head")) = 1
                   /\ ret.defined /\ (ret.success <=> CheckSucceeded)
        ELSE /\ EventsOf("head") = {}
             /\ UrlCallReturned => Cardinality(EventsOf("post")) = 1

\* a source one character under the threshold, returned after its check
C20_Witness ==
    /\ UrlCallReturned
    /\ Len(blocks[1].source) = UrlSourceLimit - 1
    /\ CheckSucceeded /\ ret.success

(***************************************************************************)
(* The image-search pass: one query for each placeholder.                  *)
(***************************************************************************)
\* the answer of the search service is a list of items that can be mapped
UsableItems(e) ==
    /\ e.outcome = "response"
    /\ Len(e.data) > 0
    /\ \A k \in 1..Len(e.data) : e.data[k].image

\* C21: for each image-search directive one query is made and none is repeated;
\* a list of results that is not empty resolves the directive to the URL of the
\* first result; an empty list or an error of any kind, inside searchImages as
\* well, leaves the directive failed, and the pass goes on.
C21_OneQueryFirstResult ==
    mode = "search" =>
        /\ calls = Len(results) + (IF pc = "search" THEN 1 ELSE 0)
        /\ pc = "done" => Len(results) = Len(blocks)
        /\ Len(results) > 0 =>
              /\ Len(events) = 1
              /\ LET e   == events[1]
                     res == results[Len(results)]
                 IN  IF UsableItems(e)
                     THEN res.success /\ res.url = e.data[1].link
                     ELSE ~res.success

\* a pass of two placeholders: the first query failed, the second did not
C21_Witness ==
    /\ mode = "search" /\ pc = "done"
    /\ Len(results) = 2 /\ calls = 2
    /\ ~results[1].success /\ results[2].success

(***************************************************************************)
(* One resolver call at a time within a pass.                              *)
(***************************************************************************)
\* the positions at which a pass awaits a request it has issued
InFlight(at) ==
    at \in {"post", "upload", "search", "get", "gupload"}

\* the step takes the answer of the awaited request
AnswerTaken ==
    Len(events') = Len(events) + 1 \/ Len(results') = Len(results) + 1

\* a step of a pass that keeps to one request at a time
OneCallAtATimeStep ==
    mode \in PassModes =>
        /\ InFlight(pc) => Len(results) = idx - 1
        /\ calls' \in {calls, calls + 1}
        /\ calls' = calls + 1 =>
              /\ InFlight(pc')
              /\ InFlight(pc) => AnswerTaken
        /\ idx' # idx => idx' = idx + 1 /\ Len(results') = idx

\* C24: the directives of a document are resolved one after the other: a request
\* is issued only when none is awaited or in the step that takes the answer of
\* the awaited one, the awaited request belongs to the directive at hand while
\* every earlier directive has its result, and the pass moves to the next
\* directive only when the one at hand has its result.
C24_OneCallAtATime ==
    [][OneCallAtATimeStep]_vars

\* the request of the second directive awaited, the first directive resolved
C24_Witness ==
    /\ mode \in PassModes
    /\ InFlight(pc) /\ idx = 2 /\ Len(results) = 1 /\ calls >= 2

(***************************************************************************)
(* Two directives with the same raw text.                                  *)
(***************************************************************************)
SameRawSpan(i, j) ==
    i # j /\ blocks[i].fullMatch = blocks[j].fullMatch

\* C26: each directive's resolution is applied to the occurrence at the
\* directive's own position, also when two directives of the document have the
\* same raw text and different resolutions: the text returned is the original
\* with every span replaced by its own directive's replacement, none by the
\* other's, none twice and none left as it was.
C26_OwnOccurrenceRewritten ==
    (/\ PassReturned /\ mode \in {"diagrams", "generation"}
     /\ Len(results) = Len(blocks)
     /\ \E i, j \in 1..Len(blocks) : SameRawSpan(i, j) /\ results[i] # results[j])
        => content = SplicedFrom(0)

(***************************************************************************)
(* The URL of a successful generateDiagram of utils/kroki.js.              *)
(***************************************************************************)
\* the request of the call that has ended, and the answer it got
SubmittedRequest ==
    events[Len(events)].request

\* the URL at which the rendering service renders the submitted text:
\* the address the text was posted to, then the encoding of that text
UrlOfSubmitted ==
    SubmittedRequest.url \o <<"/">> \o encodeDiagramSource(SubmittedRequest.body)

\* C27: when generateDiagram of utils/kroki.js reports success, its URL denotes a
\* rendering of exactly the source that was submitted to the rendering service
\* and accepted (for Mermaid the sanitized source): for svg it carries the
\* returned rendering, for every other format it encodes the submitted text.
C27_UrlOfSubmittedSource ==
    (mode = "krokiGenerateDiagram" /\ pc = "done" /\ ret.success)
        => IF blocks[1].format = <<"s", "v", "g">>
           THEN ret.url = SvgDataUrl(events[Len(events)].data)
           ELSE ret.url = UrlOfSubmitted

(***************************************************************************)
(* The value generateImage completes with.                                 *)
(***************************************************************************)
\* C28: generateImage always completes with a result object whose success field
\* is a boolean: it never completes with undefined and never throws, whatever
\* the value of maxRetries, zero included.
C28_AlwaysAResultObject ==
    (mode = "generateImage" /\ pc \in {"done", "thrown"})
        => /\ pc = "done"
           /\ ret.defined
           /\ ret.success \in BOOLEAN

(***************************************************************************)
(* The order of the attempts of generateWithFallback.                      *)
(***************************************************************************)
\* the attempt ended with an error of status 503 or 429
Overloaded(e) ==
    e.outcome = "rejected" /\ e.status \in {503, 429}

\* C25: generateWithFallback tries the models strictly in MODEL_HIERARCHY order,
\* one attempt each; it returns the first success; it moves on to the next model
\* only after an error of status 503 or 429; it rethrows any other error at
\* once; and it throws the last error once every model failed with 503 or 429.
C25_FallbackOrder ==
    mode = "generateWithFallback" =>
        /\ Len(events) <= Len(MODEL_HIERARCHY)
        /\ calls = Len(events) + (IF pc = "generate" THEN 1 ELSE 0)
        /\ \A k \in 1..Len(events) :
              /\ events[k].model = MODEL_HIERARCHY[k]
              /\ k < Len(events) => Overloaded(events[k])
        /\ pc = "generate" => \A k \in 1..Len(events) : Overloaded(events[k])
        /\ pc = "done" =>
              /\ events[Len(events)].outcome = "text"
              /\ ret = [defined |-> TRUE, success |-> TRUE,
                        model |-> MODEL_HIERARCHY[Len(events)]]
        /\ pc = "thrown" =>
              /\ events[Len(events)].outcome # "text"
              /\ ret.thrown = [model |-> MODEL_HIERARCHY[Len(events)],
                               status |-> events[Len(events)].status]
              /\ Overloaded(events[Len(events)]) => Len(events) = Len(MODEL_HIERARCHY)
        /\ pc \in {"call", "generate", "done", "thrown"}

\* every model was tried and was overloaded: the last error is thrown
C25_Witness ==
    /\ mode = "generateWithFallback"
    /\ pc = "thrown" /\ Len(events) = Len(MODEL_HIERARCHY)
    /\ Overloaded(events[Len(events)])

(***************************************************************************)
(* Who may change a space.                                                 *)
(***************************************************************************)
OwnerOnlyOps ==
    {"delete", "remove-admin", "toggle-editor", "remove-member", "update"}

\* a handler served a request on the space that existed; the requester may act
\* if the operation is open to it
MayAct(space, request) ==
    CASE request.op \in OwnerOnlyOps -> space.owner = request.user
      [] request.op = "make-admin" ->
            space.owner = request.user \/ Some(space.admins, request.user)
      [] OTHER -> TRUE

OwnerOnlyStep ==
    (mode = "spaces" /\ manifest # <<>>
        /\ events'[1].op \in OwnerOnlyOps \cup {"make-admin"}
        /\ ~MayAct(manifest[1], events'[1]))
            => ret'.status = 403 /\ manifest' = manifest

\* C23: delete-space, remove-admin, toggle-editor, remove-member and
\* update-details change a space only when the requester is its owner, and
\* make-admin only when the requester is the owner or an admin; every other
\* requester gets 403 and the space (owner, members, admins, editors and
\* details) stays as it was.
C23_OwnerOnlyOperations ==
    [][OwnerOnlyStep]_vars

\* an admin that is not the owner was refused the removal of a member
C23_Witness ==
    /\ mode = "spaces" /\ manifest # <<>> /\ events # <<>>
    /\ events[1].op = "remove-member" /\ ret.status = 403
    /\ Some(manifest[1].admins, events[1].user)
    /\ Some(manifest[1].members, events[1].userId)

(***************************************************************************)
(* The roles of a space are held by members.                               *)
(***************************************************************************)
\* the request last served asked for the owner to go: the owner leaving, or
\* the removal of the owner
OwnerAskedToGo ==
    /\ events # <<>> /\ manifest # <<>>
    /\ \/ events[1].op = "leave" /\ events[1].user = manifest[1].owner
       \/ events[1].op = "remove-member" /\ events[1].userId = manifest[1].owner

\* C30: after any sequence of create, join, leave, make-admin, remove-admin,
\* toggle-editor and remove-member on a space, the owner is a member, every
\* admin is a member and every editor is a member; the owner can neither leave
\* nor be removed.
C30_RolesAreMembers ==
    (mode = "spaces" /\ manifest # <<>>) =>
        LET space == manifest[1]
        IN  /\ Some(space.members, space.owner)
            /\ \A k \in 1..Len(space.admins) : Some(space.members, space.admins[k])
            /\ \A k \in 1..Len(space.editors) : Some(space.members, space.editors[k])
            /\ OwnerAskedToGo => ret.status \in {400, 403}

\* a member has been removed; the owner and one more member remain, both are
\* admins and one of them is an editor
C30_Witness ==
    /\ mode = "spaces" /\ manifest # <<>> /\ events # <<>>
    /\ events[1].op = "remove-member" /\ ret.status = 200
    /\ ~Some(manifest[1].members, events[1].userId)
    /\ Len(manifest[1].members) = 2
    /\ Len(manifest[1].admins) = 2 /\ Len(manifest[1].editors) = 1

(***************************************************************************)
(* The wall-clock budget of POST /create.                                  *)
(***************************************************************************)
\* POST /create has answered
CreateAnswered ==
    mode = "createMaterial" /\ results.create.at = "done"

\* the distinct answer for a request that ran out of time
TimedOutAnswer ==
    /\ results.create.status = 504
    /\ results.create.message
          = "Processing took too long. Try with a smaller file or fewer pages."
    /\ results.create.message
          \notin {"Failed to process files",
                  "AI processing service temporarily unavailable. Please try again later."}

\* the request has stored no Material
NothingSaved ==
    [id |-> "m1", subjectId |-> "s1"] \notin manifest.materials

\* the call of generateWithFallback had not settled when the budget was used up
GenerationOverBudget ==
    /\ replaced.timer = "fired"
    /\ \/ replaced.generation = "running"
       \/ replaced.settledAt > replaced.due

C29_NoMaterialOfDeletedSubject ==
    (mode = "createMaterial" /\ results.delete.at = "done"
        /\ results.delete.status = 200)
            => \A m \in manifest.materials : m.subjectId # "s1"

====
